---- MODULE Spec2Model ----
(***************************************************************************)
(* Report export engine of the journal application: the font loader        *)
(* singleton and the three paginated-document generators of                *)
(* src/src/utils/pdfGenerator.ts, and the export handlers that call them   *)
(* (ExportButton, TrialBalanceResult, LedgerResult with its archive        *)
(* bundling).  One JavaScript event loop: synchronous code runs to         *)
(* completion, asynchronous functions interleave only at their awaits.     *)
(***************************************************************************)
EXTENDS Integers, Sequences, FiniteSets, TLC

\* ------------------------------------------------------------------ bounds
\* Longest list of ledgers in a LedgerResponse.
MaxLedgers == 2
\* Most data rows handed to one generate*PDF call.
MaxRows == 4
\* Table rows that fit on one page between the top and bottom margins.
RowsPerPage == 2
\* The longest record list of a report.
MaxRecords == 2
\* Entries of a report that is exported as delimited text or as a table.
MaxEntries == 2

\* ------------------------------------------------------------- basic values
\* The null of `string | null`; "<" is no base64 character.
Null == "<null>"

\* Account names (Ledger.勘定科目) the backend may return.
Accounts == {"Cash", "Sales"}

\* The dateFrom / dateTo props of the result components.
dateFrom == "2024-01-01"
dateTo == "2024-03-31"

\* The two static font assets served under /fonts/, as byte sequences.
FontFileJP == <<0, 1, 74>>
FontFileSC == <<0, 1, 83, 67>>

\* ------------------------------------------------------------------ base64
B64Alphabet ==
    << "A","B","C","D","E","F","G","H","I","J","K","L","M","N","O","P",
       "Q","R","S","T","U","V","W","X","Y","Z","a","b","c","d","e","f",
       "g","h","i","j","k","l","m","n","o","p","q","r","s","t","u","v",
       "w","x","y","z","0","1","2","3","4","5","6","7","8","9","+","/" >>

B64Char(n) == B64Alphabet[n + 1]

\* btoa of a binary string given as its bytes.
RECURSIVE btoa(_)
btoa(bytes) ==
    IF Len(bytes) = 0 THEN ""
    ELSE IF Len(bytes) = 1 THEN
        B64Char(bytes[1] \div 4) \o B64Char((bytes[1] % 4) * 16) \o "=="
    ELSE IF Len(bytes) = 2 THEN
        B64Char(bytes[1] \div 4)
        \o B64Char((bytes[1] % 4) * 16 + bytes[2] \div 16)
        \o B64Char((bytes[2] % 16) * 4) \o "="
    ELSE
        B64Char(bytes[1] \div 4)
        \o B64Char((bytes[1] % 4) * 16 + bytes[2] \div 16)
        \o B64Char((bytes[2] % 16) * 4 + bytes[3] \div 64)
        \o B64Char(bytes[3] % 64)
        \o btoa(SubSeq(bytes, 4, Len(bytes)))

\* toBase64: every byte becomes one character of the binary string, then btoa.
toBase64(buffer) == btoa(buffer)

\* JavaScript truthiness of a `string | null`.
Truthy(s) == s # Null /\ s # ""

\* ------------------------------------------------------------------- state
VARIABLES
    fontJPBase64,    \* module cache of the JP font, Null or base64 text
    fontSCBase64,    \* module cache of the SC font, Null or base64 text
    fontLoadPromise, \* [id, state]: the cached in-flight operation
    loadPc,          \* where the async loader body stands
    fetchCount,      \* fetch pairs (JP + SC) issued so far
    inv,             \* one generate*PDF invocation per slot
    running,         \* the slot whose synchronous render holds the event loop
    doc,             \* the jsPDF document of the running render
    ledgers,         \* data.ledgers of LedgerResult: the account names
    showPDFModal,    \* per component
    pdfLoading,      \* per component
    exportAllPDF,    \* LedgerResult state
    selectedLedger,  \* LedgerResult state: 0 is null, else an index of ledgers
    hpc,             \* LedgerResult.handlePDFExport: its branch and stage
    zip,             \* the JSZip of the last handlePDFExport call
    csv,             \* LedgerResult.handleExportAllCSV: [pc, zip]
    outcome,         \* what the last step handed to saveAs and notified,
                     \* when it was the step in which a handler call settled
    records,         \* MonthlyChartPanel props: data.records
    mounted,         \* MonthlyChartPanel has rendered
    selectedAccount, \* MonthlyChartPanel state: "all" or an account name
    monthlyData,     \* memo: one bucket per month, [month, entries]
    accounts,        \* memo: [name, type, color], in first-seen order
    lineChartData,   \* memo: [month, value, percentage] per bucket;
                     \* percentage is kept in tenths of a percent
    report,          \* the data a result component or ExportButton holds
    saved,           \* the delimited-text file handed to saveAs, if any
    body,            \* the table body a generate*PDF call hands to autoTable
    localStorage,    \* the item 'pdf_export_company_name', Null when unset
    companyName,     \* PDFExportModal state, per component
    reportType,      \* ReportsPage state
    dateRange,       \* ReportsPage state: is dateFrom, is dateTo, non-empty
    loading,         \* ReportsPage state
    trialBalanceData, \* ReportsPage state: Null or the report received
    ledgerData,      \* ReportsPage state
    journalData,     \* ReportsPage state
    monthlyChartData, \* ReportsPage state
    calls,           \* handleGenerateReport calls awaiting generateSummary
    timer            \* the auto-generate timeout of ReportsPage

loaderVars == <<fontJPBase64, fontSCBase64, fontLoadPromise, loadPc, fetchCount>>
renderVars == <<running, doc>>
uiVars == <<showPDFModal, pdfLoading, exportAllPDF, selectedLedger>>
ledgerVars == <<hpc, zip>>
chartVars == <<records, mounted, selectedAccount, monthlyData, accounts,
               lineChartData>>
exportVars == <<fontJPBase64, fontSCBase64, fontLoadPromise, loadPc,
                fetchCount, inv, running, doc, ledgers, showPDFModal,
                pdfLoading, exportAllPDF, selectedLedger, hpc, zip, csv,
                outcome>>
textVars == <<report, saved, body>>
modalVars == <<localStorage, companyName>>
pageVars == <<reportType, dateRange, loading, trialBalanceData, ledgerData,
              journalData, monthlyChartData, calls, timer>>
\* What the export engine never touches.
viewVars == <<chartVars, textVars, modalVars, pageVars>>
vars == <<fontJPBase64, fontSCBase64, fontLoadPromise, loadPc, fetchCount,
          inv, running, doc, ledgers, showPDFModal, pdfLoading, exportAllPDF,
          selectedLedger, hpc, zip, csv, outcome, records, mounted,
          selectedAccount, monthlyData, accounts, lineChartData,
          report, saved, body, localStorage, companyName, reportType,
          dateRange, loading, trialBalanceData, ledgerData, journalData,
          monthlyChartData, calls, timer>>

Comps == {"journal", "trial", "ledger"}

Slots == {<<"journal", 1>>, <<"trial", 1>>}
         \cup {<<"ledger", k>> : k \in 1..MaxLedgers}
NoSlot == <<"none", 0>>
Kind(s) == s[1]

IdleSlot == [pc |-> "idle", awaits |-> 0, jp |-> Null, sc |-> Null]
NoPromise == [id |-> 0, state |-> "none"]
NoDoc == [stage |-> "none", rowsLeft |-> 0, pages |-> <<>>,
          isFirstPage |-> TRUE, i |-> 0, totalPages |-> 0]
BlankPage == [rows |-> 0, first |-> 0, compact |-> 0, footers |-> <<>>]

\* Sequences over S of length at most n.
SeqsUpTo(S, n) == UNION {[1..m -> S] : m \in 0..n}

Min(a, b) == IF a < b THEN a ELSE b

\* What a handler call did by the time it settled: the files handed to
\* saveAs and the toasts shown, each in call order, and whether one of its
\* awaits threw.
Settled(h, files, toasts, threw) ==
    [handler |-> h, saved |-> files, toast |-> toasts, threw |-> threw]
NoOutcome == Settled("none", <<>>, <<>>, FALSE)

\* -------------------------------------------------------------- event loop
\* A continuation of a settled await is queued, or synchronous code runs.
MicrotaskPending ==
    \/ running # NoSlot
    \/ \E s \in Slots :
          \/ inv[s].pc \in {"fontReady", "registered", "resolved", "rejected"}
          \/ /\ inv[s].pc = "awaitFont"
             /\ fontLoadPromise.state \in {"fulfilled", "rejected"}

\* The next task (a click, a network or file result) starts only when the
\* microtask queue is empty.
EventLoopIdle == ~MicrotaskPending

\* -------------------------------------------------------------- font loader
\* loadFontData, line 20: both caches hold a usable string.
CacheHit == Truthy(fontJPBase64) /\ Truthy(fontSCBase64)

\* A variant that starts a load for every caller that misses the cache.
FetchesStartedNoCoalesce(n) == IF CacheHit THEN 0 ELSE n

\* A variant without the fast path that starts a load whenever none is in flight.
FetchesStartedNoFastPath(n) ==
    IF n > 0 /\ fontLoadPromise.state # "pending" THEN 1 ELSE 0

\* loadFontData, lines 20-25: the fetch pairs started by n callers that call
\* one after another in the same task.
FetchesStarted(n) ==
    IF n = 0 \/ CacheHit THEN 0
    ELSE IF fontLoadPromise.state = "none" THEN 1
    ELSE 0

\* The synchronous part of generate*PDF for the callers in S: createBasePDF,
\* registerFont, loadFontData up to its return (line 21) or its await (line 59).
\* base is inv with the caller's own updates of the same step.
CallGenerate(S, base) ==
    LET started == FetchesStarted(Cardinality(S))
        promise == IF started > 0
                   THEN [id |-> fetchCount + started, state |-> "pending"]
                   ELSE fontLoadPromise
    IN  /\ fetchCount' = fetchCount + started
        /\ fontLoadPromise' = promise
        /\ loadPc' = IF started > 0 THEN "awaitFetch" ELSE loadPc
        /\ inv' = [s \in Slots |->
              IF s \notin S THEN base[s]
              ELSE IF CacheHit /\ started = 0
              THEN [pc |-> "fontReady", awaits |-> 0,
                    jp |-> fontJPBase64, sc |-> fontSCBase64]
              ELSE [pc |-> "awaitFont", awaits |-> promise.id,
                    jp |-> Null, sc |-> Null]]
        /\ UNCHANGED <<fontJPBase64, fontSCBase64>>

\* Line 32, negated: both responses are ok.
ResponsesOk(jpOk, scOk) == jpOk /\ scOk

\* A variant of lines 50-51 whose second assignment names the first cache.
CacheWriteTypo(jpBuffer, scBuffer) == <<toBase64(scBuffer), fontSCBase64>>

\* Lines 50-51: the two cache assignments, as the pair <<JP, SC>>.
CacheWrite(jpBuffer, scBuffer) == <<toBase64(jpBuffer), toBase64(scBuffer)>>

\* A variant of the catch block that logs the error and does not rethrow.
LoadRejectsSwallowed ==
    /\ fontLoadPromise' = [fontLoadPromise EXCEPT !.state = "fulfilled"]
    /\ loadPc' = "done"
    /\ UNCHANGED <<fontJPBase64, fontSCBase64>>

\* Lines 52-55: the loader body throws, the cached operation is rejected.
LoadRejects ==
    /\ fontLoadPromise' = [fontLoadPromise EXCEPT !.state = "rejected"]
    /\ loadPc' = "done"
    /\ UNCHANGED <<fontJPBase64, fontSCBase64>>

\* Lines 27-34: the two fetches settle (Promise.all), or one of them throws.
FetchSettles ==
    /\ EventLoopIdle
    /\ loadPc = "awaitFetch"
    /\ \E network \in BOOLEAN, jpOk \in BOOLEAN, scOk \in BOOLEAN :
          IF network /\ ResponsesOk(jpOk, scOk)
          THEN /\ loadPc' = "awaitBuffers"
               /\ UNCHANGED <<fontJPBase64, fontSCBase64, fontLoadPromise>>
          ELSE LoadRejects
    /\ UNCHANGED <<fetchCount, inv, renderVars, ledgers, viewVars,
                   uiVars, ledgerVars, csv>>
    /\ outcome' = NoOutcome

\* Lines 36-51: the two bodies arrive and both caches are written, or reading
\* a body throws.
BuffersSettle ==
    /\ EventLoopIdle
    /\ loadPc = "awaitBuffers"
    /\ \E ok \in BOOLEAN :
          IF ok
          THEN LET w == CacheWrite(FontFileJP, FontFileSC)
               IN  /\ fontJPBase64' = w[1]
                   /\ fontSCBase64' = w[2]
                   /\ fontLoadPromise' =
                         [fontLoadPromise EXCEPT !.state = "fulfilled"]
                   /\ loadPc' = "done"
          ELSE LoadRejects
    /\ UNCHANGED <<fetchCount, inv, renderVars, ledgers, viewVars,
                   uiVars, ledgerVars, csv>>
    /\ outcome' = NoOutcome

\* loadFontData, lines 59-60: a caller's await of the cached operation ends.
LoadFontDataResume(s) ==
    /\ running = NoSlot
    /\ inv[s].pc = "awaitFont"
    /\ fontLoadPromise.state \in {"fulfilled", "rejected"}
    /\ inv' = [inv EXCEPT ![s] =
          IF fontLoadPromise.state = "fulfilled"
          THEN [@ EXCEPT !.pc = "fontReady",
                         !.jp = fontJPBase64, !.sc = fontSCBase64]
          ELSE [@ EXCEPT !.pc = "rejected"]]
    /\ UNCHANGED <<loaderVars, renderVars, ledgers, viewVars,
                   uiVars, ledgerVars, csv>>
    /\ outcome' = NoOutcome

\* A variant in which generate*PDF goes on without awaiting registerFont.
RegisterFontNoAwait(s) ==
    /\ running = NoSlot
    /\ inv[s].pc \in {"awaitFont", "fontReady"}
    /\ inv' = [inv EXCEPT ![s].pc = "registered"]
    /\ UNCHANGED <<loaderVars, renderVars, ledgers, viewVars,
                   uiVars, ledgerVars, csv>>
    /\ outcome' = NoOutcome

\* registerFont, lines 65-73: both fonts are added to the document.
RegisterFont(s) ==
    /\ running = NoSlot
    /\ inv[s].pc = "fontReady"
    /\ inv' = [inv EXCEPT ![s].pc = "registered"]
    /\ UNCHANGED <<loaderVars, renderVars, ledgers, viewVars,
                   uiVars, ledgerVars, csv>>
    /\ outcome' = NoOutcome

\* --------------------------------------------------- paginated documents
\* The body rows of a document of kind k built from n data rows: the trial
\* balance and the ledger push a totals row (lines 283 and 366).
BodyRows(k, n) == IF k = "journal" THEN n ELSE n + 1

\* The data rows a call may carry; ExportButton returns before calling
\* generateJournalPDF when there is nothing to export (part_005, line 107).
DataRows(k) == IF k = "journal" THEN 1..MaxRows ELSE 0..MaxRows

\* addFirstPageHeader, lines 99-115, on page p.
addFirstPageHeader(p) == [p EXCEPT !.first = @ + 1]

\* addSubsequentPageHeader, lines 118-127, on page p.
addSubsequentPageHeader(p) == [p EXCEPT !.compact = @ + 1]

\* addPageFooter, lines 130-138, on page p.
addPageFooter(p, pageNumber, totalPages) ==
    [p EXCEPT !.footers = Append(@, <<pageNumber, totalPages>>)]

\* A variant of the hook that never clears the flag.
didDrawPageFlagStuck(d) == d

\* A variant of the hook that stamps the footer while the table is drawn.
didDrawPageFooter(d) ==
    LET cur == Len(d.pages)
    IN  [d EXCEPT !.pages[cur] =
                      addPageFooter(IF d.isFirstPage THEN @
                                    ELSE addSubsequentPageHeader(@), cur, cur),
                  !.isFirstPage = FALSE]

\* The didDrawPage hook, lines 235-241, called on the page just drawn.
didDrawPage(d) ==
    [d EXCEPT !.pages[Len(d.pages)] =
                  IF d.isFirstPage THEN @ ELSE addSubsequentPageHeader(@),
              !.isFirstPage = FALSE]

\* doc.internal.pages of jsPDF: an empty slot at index 0, then the pages.
InternalPagesLength(d) == Len(d.pages) + 1

\* A variant that takes the length of doc.internal.pages as the page count.
totalPagesRaw(d) == InternalPagesLength(d)

\* Line 245.
totalPagesOf(d) == InternalPagesLength(d) - 1

\* Lines 159-207 after `await registerFont(doc)`: the body is built and the
\* first-page header is drawn on the page the jsPDF constructor created.
BeginRender(s) ==
    /\ running = NoSlot
    /\ inv[s].pc = "registered"
    /\ \E n \in DataRows(Kind(s)) :
          doc' = [stage |-> "table", rowsLeft |-> BodyRows(Kind(s), n),
                  pages |-> <<addFirstPageHeader(BlankPage)>>,
                  isFirstPage |-> TRUE, i |-> 0, totalPages |-> 0]
    /\ running' = s
    /\ inv' = [inv EXCEPT ![s].pc = "rendering"]
    /\ UNCHANGED <<loaderVars, ledgers, viewVars, uiVars, ledgerVars, csv>>
    /\ outcome' = NoOutcome

\* autoTable, lines 204-243, one page of it: rows are drawn on the current
\* page, the didDrawPage hook runs, and a page is added when rows remain;
\* after the last page the page count is read (line 245).
AutoTableDrawPage ==
    /\ running # NoSlot
    /\ doc.stage = "table"
    /\ LET cur == Len(doc.pages)
           k == Min(doc.rowsLeft, RowsPerPage)
           drawn == [doc EXCEPT !.pages[cur].rows = @ + k,
                                !.rowsLeft = @ - k]
           hooked == didDrawPage(drawn)
       IN  doc' = IF hooked.rowsLeft > 0
                  THEN [hooked EXCEPT !.pages = Append(@, BlankPage)]
                  ELSE [hooked EXCEPT !.stage = "footer", !.i = 1,
                                      !.totalPages = totalPagesOf(hooked)]
    /\ UNCHANGED <<loaderVars, inv, running, ledgers, viewVars,
                   uiVars, ledgerVars, csv>>
    /\ outcome' = NoOutcome

\* The document engine throws while the table is drawn: generate*PDF rejects.
RenderThrows ==
    /\ running # NoSlot
    /\ doc.stage = "table"
    /\ inv' = [inv EXCEPT ![running].pc = "rejected"]
    /\ running' = NoSlot
    /\ doc' = NoDoc
    /\ UNCHANGED <<loaderVars, ledgers, viewVars, uiVars, ledgerVars, csv>>
    /\ outcome' = NoOutcome

\* Lines 246-250, one iteration: setPage(i), addPageFooter(i, totalPages).
StampFooter ==
    /\ running # NoSlot
    /\ doc.stage = "footer"
    /\ doc.i <= doc.totalPages
    /\ doc' = [doc EXCEPT
                  !.pages = [p \in 1..Len(@) |->
                                IF p = doc.i
                                THEN addPageFooter(@[p], doc.i, doc.totalPages)
                                ELSE @[p]],
                  !.i = @ + 1]
    /\ UNCHANGED <<loaderVars, inv, running, ledgers, viewVars,
                   uiVars, ledgerVars, csv>>
    /\ outcome' = NoOutcome

\* The footer loop is over.
Finished(d) == d.stage = "footer" /\ d.i > d.totalPages

\* Line 252: doc.output('blob') is returned; the render leaves the event loop.
Output ==
    /\ running # NoSlot
    /\ Finished(doc)
    /\ inv' = [inv EXCEPT ![running].pc = "resolved"]
    /\ running' = NoSlot
    /\ doc' = NoDoc
    /\ UNCHANGED <<loaderVars, ledgers, viewVars, uiVars, ledgerVars, csv>>
    /\ outcome' = NoOutcome

\* ------------------------------------------------------- export handlers
ReportLabel(c) ==
    IF c = "journal" THEN "ShiwakeChou"
    ELSE IF c = "trial" THEN "Shisanhyou"
    ELSE "SoukanjouMotochou"

\* `${label}_${dateFrom}_${dateTo}.${ext}`
ReportFilename(c, ext) == <<ReportLabel(c), dateFrom, dateTo, ext>>

\* A variant of the entry name that leaves the account out.
LedgerFilenameNoAccount(account, ext) ==
    <<ReportLabel("ledger"), "", dateFrom, dateTo, ext>>

\* `総勘定元帳_${ledger.勘定科目}_${dateFrom}_${dateTo}.${ext}`
\* (part_007, lines 61, 77, 102, 110).
LedgerFilename(account, ext) ==
    <<ReportLabel("ledger"), account, dateFrom, dateTo, ext>>

\* JSZip.file(name, data): adds the entry, or replaces the data of the entry
\* that already has this name, keeping its place.
ZipFile(z, name, data) ==
    IF \E i \in 1..Len(z) : z[i].name = name
    THEN [i \in 1..Len(z) |->
             IF z[i].name = name THEN [name |-> name, data |-> data] ELSE z[i]]
    ELSE Append(z, [name |-> name, data |-> data])

\* A variant of the catch block that saves what the archive holds so far.
SavedOnFailurePartial(z) ==
    <<[name |-> ReportFilename("ledger", "zip"), content |-> z]>>

\* part_007, lines 115-117: the catch block hands nothing to saveAs.
SavedOnFailure(z) == <<>>

\* A variant of the loop that starts every document at once.
FirstBatchAll(n) == 1..n

\* part_007, lines 99-100: the documents whose generation the loop starts
\* before its first await, for n ledgers.
FirstBatch(n) == IF n >= 1 THEN {1} ELSE {}

LedgerSlots(K) == {<<"ledger", k>> : k \in K}

\* The "PDF" buttons of ExportButton (part_005, lines 160-163) and of
\* TrialBalanceResult.
OpenPDFModal(c) ==
    /\ EventLoopIdle
    /\ c \in {"journal", "trial"}
    /\ ~showPDFModal[c]
    /\ showPDFModal' = [showPDFModal EXCEPT ![c] = TRUE]
    /\ UNCHANGED <<loaderVars, inv, renderVars, ledgers, viewVars, pdfLoading,
                   exportAllPDF, selectedLedger, ledgerVars, csv>>
    /\ outcome' = NoOutcome

\* PDFExportModal's cancel button (part_004, lines 65-67), disabled while
\* loading: onClose.
ClosePDFModal(c) ==
    /\ EventLoopIdle
    /\ showPDFModal[c]
    /\ ~pdfLoading[c]
    /\ showPDFModal' = [showPDFModal EXCEPT ![c] = FALSE]
    /\ UNCHANGED <<loaderVars, inv, renderVars, ledgers, viewVars, pdfLoading,
                   exportAllPDF, selectedLedger, ledgerVars, csv>>
    /\ outcome' = NoOutcome

\* handleExportSinglePDF, part_007 lines 65-69.
handleExportSinglePDF(k) ==
    /\ EventLoopIdle
    /\ ~showPDFModal["ledger"]
    /\ k \in 1..Len(ledgers)
    /\ selectedLedger' = k
    /\ exportAllPDF' = FALSE
    /\ showPDFModal' = [showPDFModal EXCEPT !["ledger"] = TRUE]
    /\ UNCHANGED <<loaderVars, inv, renderVars, ledgers, viewVars, pdfLoading,
                   ledgerVars, csv>>
    /\ outcome' = NoOutcome

\* handleExportAllPDFClick, part_007 lines 85-89.
handleExportAllPDFClick ==
    /\ EventLoopIdle
    /\ ~showPDFModal["ledger"]
    /\ selectedLedger' = 0
    /\ exportAllPDF' = TRUE
    /\ showPDFModal' = [showPDFModal EXCEPT !["ledger"] = TRUE]
    /\ UNCHANGED <<loaderVars, inv, renderVars, ledgers, viewVars, pdfLoading,
                   ledgerVars, csv>>
    /\ outcome' = NoOutcome

\* handleExportPDF of ExportButton (part_005, lines 105-113) and of
\* TrialBalanceResult (lines 64-67), up to the await of generate*PDF.
handleExportPDF(c) ==
    /\ EventLoopIdle
    /\ c \in {"journal", "trial"}
    /\ showPDFModal[c]
    /\ ~pdfLoading[c]
    /\ \E empty \in BOOLEAN :
          IF c = "journal" /\ empty
          THEN \* part_005, line 107: nothing to export, return
               /\ outcome' = Settled(c, <<>>, <<>>, FALSE)
               /\ UNCHANGED <<loaderVars, inv, pdfLoading>>
          ELSE /\ pdfLoading' = [pdfLoading EXCEPT ![c] = TRUE]
               /\ CallGenerate({<<c, 1>>}, inv)
               /\ outcome' = NoOutcome
    /\ UNCHANGED <<renderVars, ledgers, viewVars, showPDFModal, exportAllPDF,
                   selectedLedger, ledgerVars, csv>>

\* The rest of handleExportPDF (part_005 lines 114-122, TrialBalanceResult
\* lines 68-76): saveAs and the success toast, or the catch; then finally.
handleExportPDFSettled(c) ==
    /\ running = NoSlot
    /\ c \in {"journal", "trial"}
    /\ inv[<<c, 1>>].pc \in {"resolved", "rejected"}
    /\ IF inv[<<c, 1>>].pc = "resolved"
       THEN /\ outcome' = Settled(c, <<[name |-> ReportFilename(c, "pdf"),
                                         content |-> <<c, 1>>]>>,
                                   <<"success">>, FALSE)
            /\ showPDFModal' = [showPDFModal EXCEPT ![c] = FALSE]
       ELSE /\ outcome' = Settled(c, <<>>, <<"error">>, TRUE)
            /\ UNCHANGED showPDFModal
    /\ pdfLoading' = [pdfLoading EXCEPT ![c] = FALSE]
    /\ inv' = [inv EXCEPT ![<<c, 1>>] = IdleSlot]
    /\ UNCHANGED <<loaderVars, renderVars, ledgers, viewVars, exportAllPDF,
                   selectedLedger, ledgerVars, csv>>

\* -------------------------------------------- LedgerResult.handlePDFExport
IdleHandler == [stage |-> "idle", k |-> 0]

\* Lines 113-114 and 118-120: the dialog closes, the success toast, finally.
LedgerSucceeds(file) ==
    /\ outcome' = Settled("ledger", file, <<"success">>, FALSE)
    /\ showPDFModal' = [showPDFModal EXCEPT !["ledger"] = FALSE]
    /\ pdfLoading' = [pdfLoading EXCEPT !["ledger"] = FALSE]
    /\ hpc' = IdleHandler
    /\ UNCHANGED zip

\* Lines 115-120: the catch block and finally.
LedgerFails ==
    /\ outcome' = Settled("ledger", SavedOnFailure(zip), <<"error">>, TRUE)
    /\ pdfLoading' = [pdfLoading EXCEPT !["ledger"] = FALSE]
    /\ hpc' = IdleHandler
    /\ UNCHANGED <<zip, showPDFModal>>

\* handlePDFExport, lines 92-100 and 107-109, up to its first await.
handlePDFExport ==
    /\ EventLoopIdle
    /\ showPDFModal["ledger"]
    /\ ~pdfLoading["ledger"]
    /\ IF exportAllPDF /\ Len(ledgers) = 0
       THEN \* the loop body never runs: zip.generateAsync is awaited
            /\ pdfLoading' = [pdfLoading EXCEPT !["ledger"] = TRUE]
            /\ hpc' = [stage |-> "zipping", k |-> 0]
            /\ zip' = <<>>
            /\ outcome' = NoOutcome
            /\ UNCHANGED <<loaderVars, inv, showPDFModal>>
       ELSE IF exportAllPDF
       THEN /\ pdfLoading' = [pdfLoading EXCEPT !["ledger"] = TRUE]
            /\ hpc' = [stage |-> "bulk", k |-> 0]
            /\ zip' = <<>>
            /\ CallGenerate(LedgerSlots(FirstBatch(Len(ledgers))), inv)
            /\ outcome' = NoOutcome
            /\ UNCHANGED showPDFModal
       ELSE IF selectedLedger # 0
       THEN /\ pdfLoading' = [pdfLoading EXCEPT !["ledger"] = TRUE]
            /\ hpc' = [stage |-> "single", k |-> selectedLedger]
            /\ CallGenerate({<<"ledger", selectedLedger>>}, inv)
            /\ outcome' = NoOutcome
            /\ UNCHANGED <<zip, showPDFModal>>
       ELSE \* neither branch: lines 113-114 run at once
            /\ outcome' = Settled("ledger", <<>>, <<"success">>, FALSE)
            /\ showPDFModal' = [showPDFModal EXCEPT !["ledger"] = FALSE]
            /\ UNCHANGED <<loaderVars, inv, pdfLoading, ledgerVars>>
    /\ UNCHANGED <<renderVars, ledgers, viewVars,
                   exportAllPDF, selectedLedger, csv>>

\* Line 100 resolves, line 101: blob.arrayBuffer() is awaited.
LedgerBlobResolved(k) ==
    /\ running = NoSlot
    /\ hpc.stage = "bulk"
    /\ inv[<<"ledger", k>>].pc = "resolved"
    /\ inv' = [inv EXCEPT ![<<"ledger", k>>].pc = "buffering"]
    /\ UNCHANGED <<loaderVars, renderVars, ledgers, viewVars,
                   uiVars, ledgerVars, csv>>
    /\ outcome' = NoOutcome

\* Line 102: the bytes are added under the ledger's file name; then the next
\* iteration calls generateLedgerPDF (line 100), or the loop is over and
\* zip.generateAsync is awaited (line 105).
LedgerBufferDone(k) ==
    /\ EventLoopIdle
    /\ hpc.stage = "bulk"
    /\ inv[<<"ledger", k>>].pc = "buffering"
    /\ zip' = ZipFile(zip, LedgerFilename(ledgers[k], "pdf"), k)
    /\ LET base == [inv EXCEPT ![<<"ledger", k>>] = IdleSlot]
           next == {j \in {k + 1} :
                       j <= Len(ledgers) /\ inv[<<"ledger", j>>].pc = "idle"}
       IN  IF k < Len(ledgers)
           THEN /\ CallGenerate(LedgerSlots(next), base)
                /\ hpc' = hpc
           ELSE /\ inv' = base
                /\ hpc' = [stage |-> "zipping", k |-> 0]
                /\ UNCHANGED loaderVars
    /\ UNCHANGED <<renderVars, ledgers, viewVars, uiVars, csv>>
    /\ outcome' = NoOutcome

\* generateLedgerPDF rejected (line 100 or 109 throws): catch and finally.
LedgerRejected(k) ==
    /\ running = NoSlot
    /\ hpc.stage \in {"bulk", "single"}
    /\ inv[<<"ledger", k>>].pc = "rejected"
    /\ LedgerFails
    /\ inv' = [inv EXCEPT ![<<"ledger", k>>] = IdleSlot]
    /\ UNCHANGED <<loaderVars, renderVars, ledgers, viewVars, exportAllPDF,
                   selectedLedger, csv>>

\* Lines 105-106: the archive is compressed and saved, or compression throws.
ZipSettles ==
    /\ EventLoopIdle
    /\ hpc.stage = "zipping"
    /\ \E ok \in BOOLEAN :
          IF ok
          THEN LedgerSucceeds(<<[name |-> ReportFilename("ledger", "zip"),
                                 content |-> zip]>>)
          ELSE LedgerFails
    /\ UNCHANGED <<loaderVars, inv, renderVars, ledgers, viewVars,
                   exportAllPDF, selectedLedger, csv>>

\* Lines 109-110: the single document is saved under its file name.
LedgerSingleResolved ==
    /\ running = NoSlot
    /\ hpc.stage = "single"
    /\ inv[<<"ledger", hpc.k>>].pc = "resolved"
    /\ LedgerSucceeds(<<[name |-> LedgerFilename(ledgers[hpc.k], "pdf"),
                         content |-> <<"ledger", hpc.k>>]>>)
    /\ inv' = [inv EXCEPT ![<<"ledger", hpc.k>>] = IdleSlot]
    /\ UNCHANGED <<loaderVars, renderVars, ledgers, viewVars, exportAllPDF,
                   selectedLedger, csv>>

\* ----------------------------------------- LedgerResult.handleExportAllCSV
\* Lines 75-78: one zip.file per ledger, in the order of data.ledgers.
RECURSIVE ZipAllCSV(_)
ZipAllCSV(k) ==
    IF k = 0 THEN <<>>
    ELSE ZipFile(ZipAllCSV(k - 1), LedgerFilename(ledgers[k], "csv"), k)

\* handleExportAllCSV, lines 72-80, up to the await of zip.generateAsync.
\* Every call has a zip of its own; one call at a time is followed.
handleExportAllCSV ==
    /\ EventLoopIdle
    /\ csv.pc # "zipping"
    /\ csv' = [pc |-> "zipping", zip |-> ZipAllCSV(Len(ledgers))]
    /\ outcome' = NoOutcome
    /\ UNCHANGED <<loaderVars, inv, renderVars, ledgers, viewVars,
                   uiVars, ledgerVars>>

\* Lines 80-81: the archive is saved, or zip.generateAsync rejects and the
\* rejection leaves the handler unhandled.
CsvZipSettles ==
    /\ EventLoopIdle
    /\ csv.pc = "zipping"
    /\ \E ok \in BOOLEAN :
          IF ok
          THEN outcome' = Settled("csv",
                                  <<[name |-> ReportFilename("ledger", "zip"),
                                     content |-> csv.zip]>>, <<>>, FALSE)
          ELSE outcome' = Settled("csv", <<>>, <<>>, TRUE)
    /\ csv' = [pc |-> "idle", zip |-> <<>>]
    /\ UNCHANGED <<loaderVars, inv, renderVars, ledgers, viewVars,
                   uiVars, ledgerVars>>

\* ------------------------------------------------------ MonthlyChartPanel
\* (src/src/components/transaction/TransactionTable.tsx, lines 576-881)
\* Text that the code takes apart (dates, amounts) is a sequence of
\* one-character strings; account names are only compared and stay strings.

\* A JavaScript number that may be NaN.
Num(v) == [nan |-> FALSE, v |-> v]
NaN == [nan |-> TRUE, v |-> 0]

\* `x || 0` for a number x: NaN and 0 are falsy.
OrZero(x) == IF x.nan THEN 0 ELSE x.v

DigitChars == <<"0", "1", "2", "3", "4", "5", "6", "7", "8", "9">>
DigitValues ==
    [c \in {"0", "1", "2", "3", "4", "5", "6", "7", "8", "9"} |->
        CHOOSE i \in 0..9 : DigitChars[i + 1] = c]
IsDigit(c) == c \in DOMAIN DigitValues
DigitValue(c) == DigitValues[c]

\* UTF-16 code units of the characters that occur in the modelled dates.
CharCode(c) ==
    IF c = "-" THEN 45
    ELSE IF c = "/" THEN 47
    ELSE 48 + DigitValue(c)

RECURSIVE DecimalValue(_)
DecimalValue(ds) ==
    IF ds = <<>> THEN 0
    ELSE 10 * DecimalValue(SubSeq(ds, 1, Len(ds) - 1)) + DigitValue(ds[Len(ds)])

RECURSIVE DigitPrefix(_)
DigitPrefix(s) ==
    IF s = <<>> \/ ~IsDigit(Head(s)) THEN <<>>
    ELSE <<Head(s)>> \o DigitPrefix(Tail(s))

\* parseFloat on text made of digits and "-": an optional sign, then the
\* longest run of digits; NaN when there is no digit to read.
parseFloat(s) ==
    LET neg == s # <<>> /\ Head(s) = "-"
        ds == DigitPrefix(IF neg THEN Tail(s) ELSE s)
    IN  IF ds = <<>> THEN NaN
        ELSE IF neg THEN Num(0 - DecimalValue(ds))
        ELSE Num(DecimalValue(ds))

\* Number(part) for one part of a split month key: "" is 0, digits are
\* their value, anything else is NaN.
Number(s) ==
    IF \A i \in 1..Len(s) : IsDigit(s[i]) THEN Num(DecimalValue(s)) ELSE NaN

\* String.prototype.substring(from, to).
substring(s, from, to) == SubSeq(s, from + 1, Min(to, Len(s)))

\* String.prototype.split(sep) for a one-character separator.
RECURSIVE split(_, _)
split(s, sep) ==
    IF \A i \in 1..Len(s) : s[i] # sep THEN <<s>>
    ELSE LET i == CHOOSE i \in 1..Len(s) :
                     s[i] = sep /\ \A j \in 1..(i - 1) : s[j] # sep
         IN  <<SubSeq(s, 1, i - 1)>> \o split(SubSeq(s, i + 1, Len(s)), sep)

\* The order Array.prototype.sort() puts strings in: by code unit, a proper
\* prefix first.
RECURSIVE StrLess(_, _)
StrLess(a, b) ==
    IF b = <<>> THEN FALSE
    ELSE IF a = <<>> THEN TRUE
    ELSE IF Head(a) # Head(b) THEN CharCode(Head(a)) < CharCode(Head(b))
    ELSE StrLess(Tail(a), Tail(b))

\* Array.from(keys).sort()
SortStrings(S) ==
    CHOOSE q \in [1..Cardinality(S) -> S] :
        \A i, j \in 1..Cardinality(S) : i < j => StrLess(q[i], q[j])

\* The decimal digits of a natural number, and padStart(2, '0').
RECURSIVE Digits(_)
Digits(n) ==
    IF n < 10 THEN <<DigitChars[n + 1]>>
    ELSE Digits(n \div 10) \o <<DigitChars[(n % 10) + 1]>>

padStart2(s) == IF Len(s) < 2 THEN <<"0">> \o s ELSE s

\* new Date(year, monthIndex, 1): Invalid Date when an argument is NaN, else
\* the month counted from year 0; years 0..99 mean 1900..1999.
InvalidDate == [valid |-> FALSE, m |-> 0]
NewDate(year, monthIndex) ==
    IF year.nan \/ monthIndex.nan THEN InvalidDate
    ELSE LET y == IF year.v \in 0..99 THEN 1900 + year.v ELSE year.v
         IN  [valid |-> TRUE, m |-> 12 * y + monthIndex.v]

\* `${getFullYear()}-${String(getMonth() + 1).padStart(2, '0')}`
MonthStr(m) == Digits(m \div 12) \o <<"-">> \o padStart2(Digits((m % 12) + 1))

\* Map.prototype.set and `map.get(key) || 0` on a Map held as a function.
EmptyMap == [x \in {} |-> 0]
MapSet(f, k, v) == [x \in DOMAIN f \cup {k} |-> IF x = k THEN v ELSE f[x]]
GetOrZero(f, k) == IF k \in DOMAIN f THEN f[k] ELSE 0

\* accountSet.set(name, type): a Map keeps a key at the place of its first
\* insertion and takes the new value.
AccountSetSet(as, name, type) ==
    IF \E i \in 1..Len(as) : as[i].name = name
    THEN [i \in 1..Len(as) |->
            IF as[i].name = name THEN [name |-> name, type |-> type] ELSE as[i]]
    ELSE Append(as, [name |-> name, type |-> type])

\* Romanised '仮受消費税' and '仮払消費税'.
TaxNameIncome == "KariukeShouhizei"
TaxNameExpense == "KaribaraiShouhizei"

\* A variant that books the tax under the record's own account.
taxNameOwnAccount(record) ==
    IF record.transaction_type = 1 THEN record.credit_item
    ELSE record.debit_item

\* Lines 758 and 777: the account the tax of a record goes to.
taxName(record) ==
    IF record.transaction_type = 1 THEN TaxNameIncome ELSE TaxNameExpense

\* A variant of the check that lets any amount through.
PostableAnyAmount(itemName, amount) == Truthy(itemName)

\* Lines 749 and 768: `itemName && amount > 0`.
Postable(itemName, amount) == Truthy(itemName) /\ amount > 0

\* Lines 750-752 (and 759-761, 769-771, 778-780): one posting.
Post(st, month, name, type, amount) ==
    [monthMap |-> [st.monthMap EXCEPT ![month] =
                      MapSet(@, name, GetOrZero(@, name) + amount)],
     accountSet |-> AccountSetSet(st.accountSet, name, type)]

\* A variant of the callback that posts the tax only together with the
\* record's own posting.
forEachRecordTaxWithPosting(st, record) ==
    LET dateStr == record.transaction_date
    IN  IF dateStr = <<>> THEN st
        ELSE
        LET month == substring(dateStr, 0, 7)
            s0 == IF month \in DOMAIN st.monthMap THEN st
                  ELSE [st EXCEPT !.monthMap = MapSet(@, month, EmptyMap)]
        IN  IF record.transaction_type = 1
            THEN LET itemName == record.credit_item
                     amount == OrZero(parseFloat(record.credit_amount))
                     taxAmount == OrZero(parseFloat(record.credit_ct))
                     s1 == Post(s0, month, itemName, "income", amount)
                 IN  IF ~Postable(itemName, amount) THEN s0
                     ELSE IF taxAmount > 0
                     THEN Post(s1, month, taxName(record), "income",
                               taxAmount)
                     ELSE s1
            ELSE IF record.transaction_type = 2
            THEN LET itemName == record.debit_item
                     amount == OrZero(parseFloat(record.debit_amount))
                     taxAmount == OrZero(parseFloat(record.debit_ct))
                     s1 == Post(s0, month, itemName, "expense", amount)
                 IN  IF ~Postable(itemName, amount) THEN s0
                     ELSE IF taxAmount > 0
                     THEN Post(s1, month, taxName(record), "expense",
                               taxAmount)
                     ELSE s1
            ELSE s0

\* Lines 731-783: the callback of data.records.forEach.
forEachRecord(st, record) ==
    LET dateStr == record.transaction_date
    IN  IF dateStr = <<>> THEN st
        ELSE
        LET month == substring(dateStr, 0, 7)
            s0 == IF month \in DOMAIN st.monthMap THEN st
                  ELSE [st EXCEPT !.monthMap = MapSet(@, month, EmptyMap)]
        IN  IF record.transaction_type = 1
            THEN LET itemName == record.credit_item
                     amount == OrZero(parseFloat(record.credit_amount))
                     s1 == IF Postable(itemName, amount)
                           THEN Post(s0, month, itemName, "income", amount)
                           ELSE s0
                     taxAmount == OrZero(parseFloat(record.credit_ct))
                 IN  IF taxAmount > 0
                     THEN Post(s1, month, taxName(record), "income",
                               taxAmount)
                     ELSE s1
            ELSE IF record.transaction_type = 2
            THEN LET itemName == record.debit_item
                     amount == OrZero(parseFloat(record.debit_amount))
                     s1 == IF Postable(itemName, amount)
                           THEN Post(s0, month, itemName, "expense", amount)
                           ELSE s0
                     taxAmount == OrZero(parseFloat(record.debit_ct))
                 IN  IF taxAmount > 0
                     THEN Post(s1, month, taxName(record), "expense",
                               taxAmount)
                     ELSE s1
            ELSE s0

\* The two Maps after the first k records have been folded (lines 727-783).
RECURSIVE Fold(_, _)
Fold(rs, k) ==
    IF k = 0 THEN [monthMap |-> EmptyMap, accountSet |-> <<>>]
    ELSE forEachRecord(Fold(rs, k - 1), rs[k])

\* Lines 583-592.
INCOME_COLORS ==
    <<"#10b981", "#06b6d4", "#0ea5e9", "#3b82f6", "#6366f1",
      "#34d399", "#22d3ee", "#38bdf8", "#60a5fa", "#818cf8">>
EXPENSE_COLORS ==
    <<"#f97316", "#ef4444", "#ec4899", "#f59e0b", "#e11d48",
      "#fb923c", "#f87171", "#f472b6", "#fbbf24", "#fb7185">>

\* Lines 799-803: the first day of the month a month key names.
MonthKeyDate(key) ==
    LET parts == split(key, "-")
        year == Number(parts[1])
        month == IF Len(parts) >= 2 THEN Number(parts[2]) ELSE NaN
    IN  NewDate(year, IF month.nan THEN NaN ELSE Num(month.v - 1))

\* Lines 798-809: every month from the first to the last month key; the
\* comparison of the loop is false when either date is invalid.
AllMonths(firstDataMonth, lastDataMonth) ==
    LET current == MonthKeyDate(firstDataMonth)
        endDate == MonthKeyDate(lastDataMonth)
    IN  IF current.valid /\ endDate.valid /\ current.m <= endDate.m
        THEN [i \in 1..(endDate.m - current.m + 1) |->
                 MonthStr(current.m + i - 1)]
        ELSE <<>>

\* A variant of the account colours with one counter for both palettes.
RECURSIVE BuildAccountsOneCounter(_, _, _)
BuildAccountsOneCounter(as, incomeIdx, expenseIdx) ==
    IF as = <<>> THEN <<>>
    ELSE LET e == Head(as)
             idx == incomeIdx + expenseIdx
             color == IF e.type = "income"
                      THEN INCOME_COLORS[(idx % Len(INCOME_COLORS)) + 1]
                      ELSE EXPENSE_COLORS[(idx % Len(EXPENSE_COLORS)) + 1]
         IN  <<[name |-> e.name, type |-> e.type, color |-> color]>>
             \o BuildAccountsOneCounter(Tail(as), incomeIdx + 1, expenseIdx)

\* Lines 811-821: accountSet.forEach, with the two running indices.
RECURSIVE BuildAccounts(_, _, _)
BuildAccounts(as, incomeIdx, expenseIdx) ==
    IF as = <<>> THEN <<>>
    ELSE LET e == Head(as)
         IN  IF e.type = "income"
             THEN <<[name |-> e.name, type |-> e.type,
                     color |-> INCOME_COLORS[
                         (incomeIdx % Len(INCOME_COLORS)) + 1]]>>
                  \o BuildAccounts(Tail(as), incomeIdx + 1, expenseIdx)
             ELSE <<[name |-> e.name, type |-> e.type,
                     color |-> EXPENSE_COLORS[
                         (expenseIdx % Len(EXPENSE_COLORS)) + 1]]>>
                  \o BuildAccounts(Tail(as), incomeIdx, expenseIdx + 1)

\* A variant of the bucket that holds only the accounts posted that month.
BucketSparse(monthMap, accs, month) ==
    LET monthData == IF month \in DOMAIN monthMap THEN monthMap[month]
                     ELSE EmptyMap
        Type(n) == (CHOOSE i \in 1..Len(accs) : accs[i].name = n)
    IN  [month |-> month,
         entries |-> [n \in DOMAIN monthData |->
            IF accs[Type(n)].type = "income" THEN monthData[n]
            ELSE 0 - monthData[n]]]

\* Lines 824-840: one bucket; `monthMap.get(month)` may be undefined.
Bucket(monthMap, accs, month) ==
    LET monthData == IF month \in DOMAIN monthMap THEN monthMap[month]
                     ELSE EmptyMap
        Type(n) == (CHOOSE i \in 1..Len(accs) : accs[i].name = n)
    IN  [month |-> month,
         entries |-> [n \in {accs[i].name : i \in 1..Len(accs)} |->
            LET amount == GetOrZero(monthData, n)
            IN  IF accs[Type(n)].type = "income" THEN amount ELSE 0 - amount]]

\* Lines 725-843: the memo that yields monthlyData and accounts.
MonthlyMemo(rs) ==
    LET st == Fold(rs, Len(rs))
    IN  IF DOMAIN st.monthMap = {}
        THEN [monthlyData |-> <<>>, accounts |-> <<>>]
        ELSE LET dataMonths == SortStrings(DOMAIN st.monthMap)
                 allMonths == AllMonths(dataMonths[1],
                                        dataMonths[Len(dataMonths)])
                 accs == BuildAccounts(st.accountSet, 0, 0)
             IN  [monthlyData |->
                     [i \in 1..Len(allMonths) |->
                         Bucket(st.monthMap, accs, allMonths[i])],
                  accounts |-> accs]

Abs(x) == IF x < 0 THEN 0 - x ELSE x

\* A variant of the rounding that drops the digits after the first decimal.
RoundTenthsDown(value, total) == (1000 * value) \div total

\* Lines 873 and 878: (value / total) * 100, then Math.round(p * 10) / 10,
\* in tenths of a percent; Math.round takes a half upwards.
RoundTenths(value, total) == (2000 * value + total) \div (2 * total)

\* Lines 857-881: the memo that yields lineChartData.
LineChartMemo(md, accs, selected) ==
    IF selected = "all" THEN <<>>
    ELSE IF ~\E i \in 1..Len(accs) : accs[i].name = selected THEN <<>>
    ELSE LET selectedAcc ==
                 accs[CHOOSE i \in 1..Len(accs) : accs[i].name = selected]
             SameType == {i \in 1..Len(accs) : accs[i].type = selectedAcc.type}
             RECURSIVE Sum(_, _)
             Sum(b, I) ==
                 IF I = {} THEN 0
                 ELSE LET i == CHOOSE i \in I : TRUE
                      IN  Abs(b.entries[accs[i].name]) + Sum(b, I \ {i})
         IN  [k \in 1..Len(md) |->
                 LET accountValue == Abs(md[k].entries[selected])
                     total == Sum(md[k], SameType)
                 IN  [month |-> md[k].month,
                      value |-> accountValue,
                      percentage |-> IF total > 0
                                     THEN RoundTenths(accountValue, total)
                                     ELSE 0]]

\* The records a report can hold. An inbound record carries its posting on
\* the credit side and an outbound one on the debit side; the other side is
\* the cash account, which the panel never reads.
Inbound(date, item, amount, ct) ==
    [transaction_date |-> date, transaction_type |-> 1,
     credit_item |-> item, credit_amount |-> amount, credit_ct |-> ct,
     debit_item |-> "Cash", debit_amount |-> amount, debit_ct |-> <<>>]
Outbound(date, item, amount, ct) ==
    [transaction_date |-> date, transaction_type |-> 2,
     debit_item |-> item, debit_amount |-> amount, debit_ct |-> ct,
     credit_item |-> "Cash", credit_amount |-> amount, credit_ct |-> <<>>]

DateNov == <<"2", "0", "2", "4", "-", "1", "1", "-", "1", "5">>
DateJan == <<"2", "0", "2", "5", "-", "0", "1", "-", "1", "0">>
DateSlashes == <<"2", "0", "2", "4", "/", "1", "2", "/", "0", "1">>
NoText == <<>>
Yen1000 == <<"1", "0", "0", "0">>
Yen500 == <<"5", "0", "0">>
Yen0 == <<"0">>
YenMinus500 == <<"-", "5", "0", "0">>
Yen80 == <<"8", "0">>
YenMinus80 == <<"-", "8", "0">>

ItemNames == {"Sales", "Supplies"}

\* Records with a date, an account and a positive amount, with or without tax.
PostingRecords ==
    {Inbound(d, n, Yen1000, ct) :
        d \in {DateNov, DateJan}, n \in ItemNames, ct \in {NoText, Yen80}}
    \cup {Outbound(d, n, Yen500, ct) :
        d \in {DateNov, DateJan}, n \in ItemNames, ct \in {NoText, Yen80}}

\* Records whose date is empty or is not of the form YYYY-MM-DD.
BadDateRecords ==
    {Inbound(d, "Sales", Yen1000, Yen80) : d \in {NoText, DateSlashes}}
    \cup {Outbound(d, "Supplies", Yen500, Yen80) : d \in {NoText, DateSlashes}}

\* Records without an account name or without a positive amount: the name
\* is empty, or the amount is zero, on inbound records; the amount is
\* missing, or negative, on outbound ones.
UnpostableRecords ==
    {Inbound(DateJan, p[1], p[2], ct) :
        p \in {<<"", Yen1000>>, <<"Sales", Yen0>>}, ct \in {NoText, Yen80}}
    \cup {Outbound(DateJan, p[1], p[2], ct) :
        p \in {<<"Sales", NoText>>, <<"Sales", YenMinus500>>},
        ct \in {NoText, Yen80}}

\* A record without a direction, and records with a negative or a zero
\* tax amount.
OtherRecords ==
    {[Inbound(DateNov, "Sales", Yen1000, Yen80)
         EXCEPT !.transaction_type = 0],
     Inbound(DateNov, "Sales", Yen1000, Yen0),
     Inbound(DateNov, "Sales", Yen1000, YenMinus80),
     Outbound(DateNov, "Supplies", Yen500, YenMinus80)}

RecordSet ==
    PostingRecords \cup BadDateRecords \cup UnpostableRecords \cup OtherRecords

\* Reports with one account more than a palette has colours: one record
\* per account, the first ones inbound and the rest outbound, or the two
\* directions taking turns.
ManyNames ==
    <<"Acct01", "Acct02", "Acct03", "Acct04", "Acct05", "Acct06",
      "Acct07", "Acct08", "Acct09", "Acct10", "Acct11">>
ManyAccountReports ==
    {[i \in 1..Len(ManyNames) |->
         IF i \in In THEN Inbound(DateNov, ManyNames[i], Yen1000, NoText)
         ELSE Outbound(DateNov, ManyNames[i], Yen500, NoText)] :
     In \in {1..j : j \in 0..Len(ManyNames)}
            \cup {{i \in 1..Len(ManyNames) : i % 2 = 1}}}

ChartUnmounted ==
    /\ mounted = FALSE
    /\ selectedAccount = "all"
    /\ monthlyData = <<>>
    /\ accounts = <<>>
    /\ lineChartData = <<>>

\* Lines 720-881: the first render of the panel computes the three memos.
MonthlyChartPanel ==
    /\ ~mounted
    /\ mounted' = TRUE
    /\ LET memo == MonthlyMemo(records)
       IN  /\ monthlyData' = memo.monthlyData
           /\ accounts' = memo.accounts
           /\ lineChartData' =
                 LineChartMemo(memo.monthlyData, memo.accounts, selectedAccount)
    /\ UNCHANGED <<records, selectedAccount, exportVars, textVars,
                   modalVars, pageVars>>

\* Lines 846-854: the values the account select offers.
accountOptions == {"all"} \cup {accounts[i].name : i \in 1..Len(accounts)}

\* Line 954 and the render it causes: lineChartData is computed again.
setSelectedAccount(value) ==
    /\ mounted
    /\ value # selectedAccount
    /\ selectedAccount' = value
    /\ lineChartData' = LineChartMemo(monthlyData, accounts, value)
    /\ UNCHANGED <<records, mounted, monthlyData, accounts, exportVars,
                   textVars, modalVars, pageVars>>

\* ------------------------------------------------- delimited-text export
\* (ExportButton: part_005; JournalResult, TrialBalanceResult; LedgerResult:
\* part_007.)  Cells are text, a sequence of one-character strings, so that
\* joining and quoting are computed.  The empty text stands for '' and for
\* an absent text alike: `x || ''` and Array.prototype.join give '' for both.

\* The character U+FEFF.
BOM == <<"BOM">>

\* A `number | null | undefined` field.
Amount(v) == [null |-> FALSE, v |-> v]
NoAmount == [null |-> TRUE, v |-> 0]

\* String(n), as join and template literals apply it to an integer.
NumberToString(n) == IF n < 0 THEN <<"-">> \o Digits(0 - n) ELSE Digits(n)

\* `amount || ''` in a row that is joined.
OrEmpty(a) == IF a.null \/ a.v = 0 THEN <<>> ELSE NumberToString(a.v)

\* `amount ?? ''` in a row that is joined.
NullishEmpty(a) == IF a.null THEN <<>> ELSE NumberToString(a.v)

\* Array.prototype.join(sep) on an array of texts.
RECURSIVE join(_, _)
join(cells, sep) ==
    IF cells = <<>> THEN <<>>
    ELSE IF Len(cells) = 1 THEN cells[1]
    ELSE cells[1] \o <<sep>> \o join(Tail(cells), sep)

\* text.replace(/"/g, '""')
RECURSIVE replaceQuotes(_)
replaceQuotes(s) ==
    IF s = <<>> THEN <<>>
    ELSE (IF Head(s) = "\"" THEN <<"\"", "\"">> ELSE <<Head(s)>>)
         \o replaceQuotes(Tail(s))

\* `"${(text || '').replace(/"/g, '""')}"`
DescriptionCell(text) == <<"\"">> \o replaceQuotes(text) \o <<"\"">>

\* BOM + [headers.join(','), ...rows.map(row => row.join(','))].join('\n')
CsvContent(headers, rows) ==
    BOM \o join(<<join(headers, ",")>>
                \o [i \in 1..Len(rows) |-> join(rows[i], ",")], "\n")

\* A header label, one cell without a comma, a quote or a newline.
Label(name) == <<name>>

\* generateLedgerCSV, part_007 lines 28-55.
generateLedgerCSV(ledger) ==
    LET headers == <<Label("Hizuke"), Label("AiteKanjouKamoku"),
                     Label("Tekiyou"), Label("KarikataKingaku"),
                     Label("KashikataKingaku"), Label("Zandaka")>>
        rows == [i \in 1..Len(ledger.entries) |->
                    LET entry == ledger.entries[i]
                    IN  <<entry.nengappi,
                          entry.aiteKanjouKamoku,
                          DescriptionCell(entry.tekiyou),
                          NullishEmpty(entry.karikataKingaku),
                          NullishEmpty(entry.kashikataKingaku),
                          NumberToString(entry.zandaka)>>]
        totals == <<Label("Goukei"), <<>>, <<>>,
                    NumberToString(ledger.summary.karikataGoukei),
                    NumberToString(ledger.summary.kashikataGoukei),
                    NumberToString(ledger.summary.zandaka)>>
    IN  CsvContent(headers, Append(rows, totals))

\* TrialBalanceResult.handleExportCSV, lines 34-57: the content.
TrialBalanceCSV(data) ==
    LET headers == <<Label("KarikataZandaka"), Label("KarikataGoukei"),
                     Label("KanjouKamoku"), Label("KashikataGoukei"),
                     Label("KashikataZandaka")>>
        rows == [i \in 1..Len(data.entries) |->
                    LET entry == data.entries[i]
                    IN  <<OrEmpty(Amount(entry.karikataZandaka)),
                          OrEmpty(Amount(entry.karikataGoukei)),
                          entry.kanjouKamoku,
                          OrEmpty(Amount(entry.kashikataGoukei)),
                          OrEmpty(Amount(entry.kashikataZandaka))>>]
        totals == <<NumberToString(data.summary.karikataZandaka),
                    NumberToString(data.summary.karikataGoukei),
                    Label("Goukei"),
                    NumberToString(data.summary.kashikataGoukei),
                    NumberToString(data.summary.kashikataZandaka)>>
    IN  CsvContent(headers, Append(rows, totals))

\* JournalResult.formatDate, lines 27-30.
formatDate(dateStr) ==
    IF dateStr = <<>> THEN <<"-">> ELSE split(dateStr, "T")[1]

\* JournalResult.handleExportCSV, lines 34-51: the content.
JournalCSV(data) ==
    LET headers == <<Label("Hizuke"), Label("Bikou"), Label("KarikataKamoku"),
                     Label("KarikataKingaku"), Label("KarikataZeigaku"),
                     Label("KashikataKamoku"), Label("KashikataKingaku"),
                     Label("KashikataZeigaku")>>
        rows == [i \in 1..Len(data.records) |->
                    LET r == data.records[i]
                    IN  <<formatDate(r.transaction_date),
                          DescriptionCell(r.description),
                          r.debit_item,
                          OrEmpty(r.debit_amount),
                          OrEmpty(r.debit_ct),
                          r.credit_item,
                          OrEmpty(r.credit_amount),
                          OrEmpty(r.credit_ct)>>]
    IN  CsvContent(headers, rows)

\* ExportButton.getDataToExport, part_005 lines 25-29; a transaction's id
\* is its place in the list, and 0 is the id of none of them.
getDataToExport(transactions, selectedIds) ==
    IF selectedIds # {}
    THEN LET RECURSIVE filter(_)
             filter(i) ==
                 IF i > Len(transactions) THEN <<>>
                 ELSE (IF i \in selectedIds THEN <<transactions[i]>>
                       ELSE <<>>) \o filter(i + 1)
         IN  filter(1)
    ELSE transactions

\* The label tables of types/index.ts (TRANSACTION_TYPE_LABELS_JP,
\* FIN_TYPE_LABELS_JP, CT_RATE_LABELS_JP) and of generateJournalPDF
\* (TRANSACTION_TYPE_MAP, FIN_TYPE_MAP, CT_RATE_MAP): table[k], which is
\* undefined, here the empty text, for a key the table does not have.
LabelOf(table, k) ==
    LET keys == IF table \in {"TRANSACTION_TYPE_LABELS_JP",
                              "TRANSACTION_TYPE_MAP"} THEN 1..2
                ELSE IF table \in {"FIN_TYPE_LABELS_JP", "FIN_TYPE_MAP"}
                THEN 1..5
                ELSE 0..4
    IN  IF k \in keys THEN <<table>> \o NumberToString(k) ELSE <<>>

\* ExportButton.handleExportCSV, part_005 lines 57-95: the content.
TransactionsCSV(dataToExport) ==
    LET headers == <<Label("Hizuke"), Label("Shurui"), Label("KessaiHouhou"),
                     Label("Bikou"), Label("KarikataKamoku"),
                     Label("KarikataKingaku"), Label("KarikataZeigaku"),
                     Label("KashikataKamoku"), Label("KashikataKingaku"),
                     Label("KashikataZeigaku"), Label("Zeiritsu"),
                     Label("KichouNichiji"), Label("KoushinNichiji")>>
        rows == [i \in 1..Len(dataToExport) |->
                    LET t == dataToExport[i]
                    IN  <<split(t.transaction_date, "T")[1],
                          LabelOf("TRANSACTION_TYPE_LABELS_JP",
                                  t.transaction_type),
                          LabelOf("FIN_TYPE_LABELS_JP", t.fin_type),
                          DescriptionCell(t.description),
                          t.debit_item,
                          OrEmpty(t.debit_amount),
                          OrEmpty(t.debit_ct),
                          t.credit_item,
                          OrEmpty(t.credit_amount),
                          OrEmpty(t.credit_ct),
                          IF t.ct_rate.null THEN <<>>
                          ELSE LabelOf("CT_RATE_LABELS_JP", t.ct_rate.v),
                          split(t.created_at, "T")[1],
                          split(t.updated_at, "T")[1]>>]
    IN  CsvContent(headers, rows)

\* ------------------------------------------------ tables of the documents
\* Number.prototype.toLocaleString('ja-JP') of an integer: digits in groups
\* of three, no currency symbol.
RECURSIVE Grouped(_)
Grouped(ds) ==
    IF Len(ds) <= 3 THEN ds
    ELSE Grouped(SubSeq(ds, 1, Len(ds) - 3))
         \o <<",">> \o SubSeq(ds, Len(ds) - 2, Len(ds))
toLocaleString(n) ==
    IF n < 0 THEN <<"-">> \o Grouped(Digits(0 - n)) ELSE Grouped(Digits(n))

\* formatAmount, pdfGenerator.ts lines 141-145.
formatAmount(amount) ==
    IF amount.null THEN <<>>
    ELSE IF amount.v = 0 THEN <<"0">>
    ELSE toLocaleString(amount.v)

\* generateJournalPDF, lines 188-200.
JournalBody(transactions) ==
    [i \in 1..Len(transactions) |->
        LET t == transactions[i]
        IN  <<split(t.transaction_date, "T")[1],
              LabelOf("TRANSACTION_TYPE_MAP", t.transaction_type),
              LabelOf("FIN_TYPE_MAP", t.fin_type),
              t.description,
              t.debit_item,
              formatAmount(t.debit_amount),
              formatAmount(t.debit_ct),
              t.credit_item,
              formatAmount(t.credit_amount),
              formatAmount(t.credit_ct),
              IF t.ct_rate.null THEN <<>>
              ELSE LabelOf("CT_RATE_MAP", t.ct_rate.v)>>]

\* generateTrialBalancePDF, lines 275-289.
TrialBalanceBody(data) ==
    Append([i \in 1..Len(data.entries) |->
               LET entry == data.entries[i]
               IN  <<formatAmount(Amount(entry.karikataZandaka)),
                     formatAmount(Amount(entry.karikataGoukei)),
                     entry.kanjouKamoku,
                     formatAmount(Amount(entry.kashikataGoukei)),
                     formatAmount(Amount(entry.kashikataZandaka))>>],
           <<formatAmount(Amount(data.summary.karikataZandaka)),
             formatAmount(Amount(data.summary.karikataGoukei)),
             Label("Goukei"),
             formatAmount(Amount(data.summary.kashikataGoukei)),
             formatAmount(Amount(data.summary.kashikataZandaka))>>)

\* generateLedgerPDF, lines 357-373.
LedgerBody(ledger) ==
    Append([i \in 1..Len(ledger.entries) |->
               LET entry == ledger.entries[i]
               IN  <<entry.nengappi,
                     entry.aiteKanjouKamoku,
                     entry.tekiyou,
                     formatAmount(entry.karikataKingaku),
                     formatAmount(entry.kashikataKingaku),
                     formatAmount(Amount(entry.zandaka))>>],
           <<<<>>, <<>>, Label("Goukei"),
             formatAmount(Amount(ledger.summary.karikataGoukei)),
             formatAmount(Amount(ledger.summary.kashikataGoukei)),
             formatAmount(Amount(ledger.summary.zandaka))>>)

\* ------------------------------------------------- the reports exported
\* The sum of f over the entries, as the backend totals a report.
Total(entries, f(_)) ==
    LET sum[i \in 0..Len(entries)] ==
            IF i = 0 THEN 0 ELSE sum[i - 1] + f(entries[i])
    IN  sum[Len(entries)]

\* LedgerEntry of types/index.ts: a counter account with or without a
\* comma, a description that is empty or holds a quote and a newline, and
\* an amount on one side, which may be 0.
LedgerEntrySet ==
    {[nengappi |-> DateNov, aiteKanjouKamoku |-> a, tekiyou |-> d,
      karikataKingaku |-> p[1], kashikataKingaku |-> p[2], zandaka |-> p[3]] :
        a \in {<<"A">>, <<"A", ",", "B">>},
        d \in {<<>>, <<"x", "\"", "\n", "y">>},
        p \in {<<Amount(1000), NoAmount, 1000>>,
               <<NoAmount, Amount(1234567), 0 - 1234567>>,
               <<Amount(0), NoAmount, 0>>}}

\* Ledger of types/index.ts, the summary totalling the entries.
LedgerOf(entries) ==
    LET debit(e) == e.karikataKingaku.v
        credit(e) == e.kashikataKingaku.v
    IN  [kanjouKamoku |-> "Cash", entries |-> entries,
         summary |-> [karikataGoukei |-> Total(entries, debit),
                      kashikataGoukei |-> Total(entries, credit),
                      zandaka |-> Total(entries, debit)
                                  - Total(entries, credit)]]

\* TrialBalanceEntry of types/index.ts.
TrialBalanceEntrySet ==
    {[kanjouKamoku |-> a, karikataGoukei |-> p[1], kashikataGoukei |-> p[2],
      karikataZandaka |-> p[3], kashikataZandaka |-> p[4]] :
        a \in {<<"A">>, <<"A", ",", "B">>},
        p \in {<<1000, 0, 1000, 0>>, <<500, 1234567, 0, 1234067>>,
               <<0, 0, 0, 0>>}}

\* TrialBalanceResponse of types/index.ts, the summary totalling the entries.
TrialBalanceOf(entries) ==
    LET debit(e) == e.karikataGoukei
        credit(e) == e.kashikataGoukei
        debitBalance(e) == e.karikataZandaka
        creditBalance(e) == e.kashikataZandaka
    IN  [entries |-> entries,
         summary |-> [karikataGoukei |-> Total(entries, debit),
                      kashikataGoukei |-> Total(entries, credit),
                      karikataZandaka |-> Total(entries, debitBalance),
                      kashikataZandaka |-> Total(entries, creditBalance)]]

\* Transaction of types/index.ts: an inbound record with tax, an outbound
\* one whose account holds a comma and whose tax is 0, and a record not yet
\* journaled; dated with a time part or undated, the description empty or
\* with a comma and a quote.
TransactionSet ==
    {[transaction_date |-> d, description |-> desc,
      transaction_type |-> p[1], fin_type |-> p[2],
      debit_item |-> p[3], debit_amount |-> p[4], debit_ct |-> p[5],
      credit_item |-> p[6], credit_amount |-> p[7], credit_ct |-> p[8],
      ct_rate |-> p[9],
      created_at |-> DateJan \o <<"T", "0", "9">>,
      updated_at |-> DateJan \o <<"T", "1", "0">>] :
        d \in {<<>>, DateNov \o <<"T", "0", "0">>},
        desc \in {<<>>, <<"x", ",", "\"">>},
        p \in {<<1, 1, <<"C">>, Amount(1000), NoAmount,
                 <<"S">>, Amount(1000), Amount(80), Amount(2)>>,
               <<2, 2, <<"A", ",", "B">>, Amount(1234567), Amount(0),
                 <<"C">>, Amount(1234567), NoAmount, Amount(0)>>,
               <<0, 0, <<>>, NoAmount, NoAmount,
                 <<>>, NoAmount, NoAmount, NoAmount>>}}

\* Nothing has been exported.
NotSaved == [done |-> FALSE, files |-> <<>>, toast |-> <<>>]
NoBody == [done |-> FALSE, rows |-> <<>>]

\* A handler ran to its end: the files it handed to saveAs, its toasts.
Saved(files, toasts) == [done |-> TRUE, files |-> files, toast |-> toasts]

\* LedgerResult.handleExportSingleCSV, part_007 lines 58-62.
handleExportSingleCSV ==
    /\ report.kind = "ledger"
    /\ ~saved.done
    /\ saved' = Saved(<<[name |-> LedgerFilename(report.data.kanjouKamoku,
                                                 "csv"),
                         content |-> generateLedgerCSV(report.data)]>>, <<>>)
    /\ UNCHANGED <<exportVars, chartVars, modalVars, pageVars, report, body>>

\* TrialBalanceResult.handleExportCSV, lines 33-61.
TrialBalanceResult_handleExportCSV ==
    /\ report.kind = "trial"
    /\ ~saved.done
    /\ saved' = Saved(<<[name |-> ReportFilename("trial", "csv"),
                         content |-> TrialBalanceCSV(report.data)]>>, <<>>)
    /\ UNCHANGED <<exportVars, chartVars, modalVars, pageVars, report, body>>

\* JournalResult.handleExportCSV, lines 33-56.
JournalResult_handleExportCSV ==
    /\ report.kind = "journal"
    /\ ~saved.done
    /\ saved' = Saved(<<[name |-> ReportFilename("journal", "csv"),
                         content |-> JournalCSV(report.data)]>>,
                      <<"success">>)
    /\ UNCHANGED <<exportVars, chartVars, modalVars, pageVars, report, body>>

\* ExportButton.handleExportCSV, part_005 lines 50-102.
ExportButton_handleExportCSV ==
    /\ report.kind = "transactions"
    /\ ~saved.done
    /\ LET dataToExport == getDataToExport(report.data.transactions,
                                           report.data.selectedIds)
       IN  saved' =
              IF dataToExport = <<>> THEN Saved(<<>>, <<>>)
              ELSE Saved(<<[name |-> ReportFilename("journal", "csv"),
                            content |-> TransactionsCSV(dataToExport)]>>,
                         <<>>)
    /\ UNCHANGED <<exportVars, chartVars, modalVars, pageVars, report, body>>

\* The body that generateJournalPDF (called by ExportButton.handleExportPDF
\* with the data to export, unless there is none: part_005 lines 106-113),
\* generateTrialBalancePDF and generateLedgerPDF hand to autoTable.
autoTableBody ==
    /\ ~body.done
    /\ \/ /\ report.kind = "transactions"
          /\ LET dataToExport == getDataToExport(report.data.transactions,
                                                 report.data.selectedIds)
             IN  /\ dataToExport # <<>>
                 /\ body' = [done |-> TRUE, rows |-> JournalBody(dataToExport)]
       \/ /\ report.kind = "trial"
          /\ body' = [done |-> TRUE, rows |-> TrialBalanceBody(report.data)]
       \/ /\ report.kind = "ledger"
          /\ body' = [done |-> TRUE, rows |-> LedgerBody(report.data)]
    /\ UNCHANGED <<exportVars, chartVars, modalVars, pageVars, report, saved>>

\* ----------------------------------------------------------- PDFExportModal
\* (part_004)  The dialog of each component; its isOpen and loading props
\* are the component's showPDFModal and pdfLoading.  localStorage is the
\* text stored under 'pdf_export_company_name', empty while the item is not
\* set: getItem then gives null, and line 32 tests only its truthiness.

\* String.prototype.trim() on a text whose only white space is " ".
RECURSIVE trim(_)
trim(s) ==
    IF s # <<>> /\ Head(s) = " " THEN trim(Tail(s))
    ELSE IF s # <<>> /\ s[Len(s)] = " " THEN trim(SubSeq(s, 1, Len(s) - 1))
    ELSE s

\* What the user may type into the name field.
TypedNames == {<<>>, <<" ">>, <<"A">>, <<" ", "A", " ">>, <<"B">>}

ModalIdle ==
    /\ localStorage = <<>>
    /\ companyName = [c \in Comps |-> <<>>]

\* The parent shows the dialog (setShowPDFModal(true)) and the effect of
\* lines 29-36 runs: a stored name replaces the one in the field.
PDFExportModal(c) ==
    /\ ~showPDFModal[c]
    /\ showPDFModal' = [showPDFModal EXCEPT ![c] = TRUE]
    /\ companyName' = [companyName EXCEPT
                          ![c] = IF localStorage # <<>> THEN localStorage
                                 ELSE @]
    /\ outcome' = NoOutcome
    /\ UNCHANGED <<loaderVars, inv, renderVars, ledgers, pdfLoading,
                   exportAllPDF, selectedLedger, ledgerVars, csv,
                   chartVars, textVars, pageVars, localStorage>>

\* Line 57: the field's onChange.
setCompanyName(c, value) ==
    /\ showPDFModal[c]
    /\ value # companyName[c]
    /\ companyName' = [companyName EXCEPT ![c] = value]
    /\ outcome' = NoOutcome
    /\ UNCHANGED <<loaderVars, inv, renderVars, ledgers, uiVars, ledgerVars,
                   csv, chartVars, textVars, pageVars, localStorage>>

\* handleExport, lines 38-44: the trimmed name is stored unless it is empty,
\* then onExport runs up to its first await (setPdfLoading(true));
\* ExportButton's handler returns at once when it has nothing to export
\* (part_005, line 107).
handleExport(c) ==
    /\ showPDFModal[c]
    /\ ~pdfLoading[c]
    /\ localStorage' = IF trim(companyName[c]) # <<>>
                       THEN trim(companyName[c]) ELSE localStorage
    /\ \E empty \in BOOLEAN :
          IF c = "journal" /\ empty
          THEN /\ outcome' = Settled(c, <<>>, <<>>, FALSE)
               /\ UNCHANGED pdfLoading
          ELSE /\ outcome' = NoOutcome
               /\ pdfLoading' = [pdfLoading EXCEPT ![c] = TRUE]
    /\ UNCHANGED <<loaderVars, inv, renderVars, ledgers, showPDFModal,
                   exportAllPDF, selectedLedger, ledgerVars, csv,
                   chartVars, textVars, pageVars, companyName>>

\* The export that onExport started comes to its end: the file is saved,
\* the dialog closed and the success toast shown, or the catch block shows
\* the error toast; finally setPdfLoading(false) (part_005 lines 113-122,
\* TrialBalanceResult lines 67-76, part_007 lines 113-120).
onExportSettled(c) ==
    /\ pdfLoading[c]
    /\ \E ok \in BOOLEAN :
          IF ok
          THEN /\ outcome' = Settled(c, <<[name |-> ReportFilename(c, "pdf"),
                                           content |-> <<c, 1>>]>>,
                                     <<"success">>, FALSE)
               /\ showPDFModal' = [showPDFModal EXCEPT ![c] = FALSE]
          ELSE /\ outcome' = Settled(c, <<>>, <<"error">>, TRUE)
               /\ UNCHANGED showPDFModal
    /\ pdfLoading' = [pdfLoading EXCEPT ![c] = FALSE]
    /\ UNCHANGED <<loaderVars, inv, renderVars, ledgers, exportAllPDF,
                   selectedLedger, ledgerVars, csv, chartVars, textVars,
                   pageVars, modalVars>>

\* ---------------------------------------------------------------- ReportsPage
\* (src/src/pages/ReportsPage.tsx)  A report received is the text "detail";
\* a date is followed only as far as line 138 reads it: empty or not.
REPORT_TYPES == {"monthly_chart", "trial_balance", "ledger", "journal"}

NoCalls == [type \in REPORT_TYPES |-> 0]

PageIdle ==
    /\ reportType = "monthly_chart"
    /\ dateRange = [from |-> TRUE, to |-> TRUE]
    /\ loading = FALSE
    /\ trialBalanceData = Null
    /\ ledgerData = Null
    /\ journalData = Null
    /\ monthlyChartData = Null
    /\ calls = NoCalls
    /\ timer = [pending |-> FALSE, reportType |-> "monthly_chart"]

\* handleGenerateReport, lines 143-164, in a closure whose reportType is
\* type: loading is set, the four results are cleared and generateSummary
\* is awaited.
GenerateReportStarts(type) ==
    /\ loading' = TRUE
    /\ trialBalanceData' = Null
    /\ ledgerData' = Null
    /\ journalData' = Null
    /\ monthlyChartData' = Null
    /\ calls' = [calls EXCEPT ![type] = @ + 1]

\* The button of lines 407 and 546, which shows loading and takes no click
\* while it does; lines 138-141 return when a date is empty.
handleGenerateReport ==
    /\ ~loading
    /\ IF dateRange.from /\ dateRange.to
       THEN GenerateReportStarts(reportType)
       ELSE UNCHANGED <<loading, trialBalanceData, ledgerData, journalData,
                        monthlyChartData, calls>>
    /\ UNCHANGED <<exportVars, chartVars, textVars, modalVars, reportType,
                   dateRange, timer>>

\* The timeout of lines 217-219 calls the handleGenerateReport of the first
\* render, whose reportType and dates are the initial ones.
AutoGenerate ==
    /\ timer.pending
    /\ timer' = [timer EXCEPT !.pending = FALSE]
    /\ GenerateReportStarts(timer.reportType)
    /\ UNCHANGED <<exportVars, chartVars, textVars, modalVars, reportType,
                   dateRange>>

\* Lines 164-206 of a call whose closure has reportType type: the answer of
\* generateSummary sets the result of that type (lines 166-183), or it names
\* records not yet journaled (lines 185-196), or the call throws (lines 198
\* and 201-203); finally loading is reset.
GenerateReportSettles(type) ==
    /\ calls[type] > 0
    /\ calls' = [calls EXCEPT ![type] = @ - 1]
    /\ loading' = FALSE
    /\ \E result \in {"successed", "initialized records", "failed"} :
          LET got(t) == result = "successed" /\ type = t
          IN  /\ trialBalanceData' =
                    IF got("trial_balance") THEN "detail" ELSE trialBalanceData
              /\ ledgerData' = IF got("ledger") THEN "detail" ELSE ledgerData
              /\ journalData' = IF got("journal") THEN "detail" ELSE journalData
              /\ monthlyChartData' =
                    IF got("monthly_chart") THEN "detail" ELSE monthlyChartData
    /\ UNCHANGED <<exportVars, chartVars, textVars, modalVars, reportType,
                   dateRange, timer>>

\* Lines 255, 259 and 288.
setReportType(type) ==
    /\ type # reportType
    /\ reportType' = type
    /\ UNCHANGED <<exportVars, chartVars, textVars, modalVars, dateRange,
                   loading, trialBalanceData, ledgerData, journalData,
                   monthlyChartData, calls, timer>>

\* Lines 381 and 393 (521 and 532): a date field is filled or emptied;
\* lines 228-249: a quick range fills both.
setDateRange(from, to) ==
    /\ dateRange # [from |-> from, to |-> to]
    /\ \/ from = dateRange.from
       \/ to = dateRange.to
       \/ from /\ to
    /\ dateRange' = [from |-> from, to |-> to]
    /\ UNCHANGED <<exportVars, chartVars, textVars, modalVars, reportType,
                   loading, trialBalanceData, ledgerData, journalData,
                   monthlyChartData, calls, timer>>

\* Lines 563, 573 and 593: a result dialog is closed.
onClose(type) ==
    /\ \/ type = "trial_balance" /\ trialBalanceData # Null
       \/ type = "ledger" /\ ledgerData # Null
       \/ type = "journal" /\ journalData # Null
    /\ trialBalanceData' =
          IF type = "trial_balance" THEN Null ELSE trialBalanceData
    /\ ledgerData' = IF type = "ledger" THEN Null ELSE ledgerData
    /\ journalData' = IF type = "journal" THEN Null ELSE journalData
    /\ UNCHANGED <<exportVars, chartVars, textVars, modalVars, reportType,
                   dateRange, loading, monthlyChartData, calls, timer>>

\* ----------------------------------------------------------- specification
\* The exporters hold no report.
TextIdle ==
    /\ report = [kind |-> "none", data |-> <<>>]
    /\ saved = NotSaved
    /\ body = NoBody

Init ==
    /\ fontJPBase64 = Null
    /\ fontSCBase64 = Null
    /\ fontLoadPromise = NoPromise
    /\ loadPc = "idle"
    /\ fetchCount = 0
    /\ inv = [s \in Slots |-> IdleSlot]
    /\ running = NoSlot
    /\ doc = NoDoc
    /\ ledgers \in SeqsUpTo(Accounts, MaxLedgers)
    /\ showPDFModal = [c \in Comps |-> FALSE]
    /\ pdfLoading = [c \in Comps |-> FALSE]
    /\ exportAllPDF = FALSE
    /\ selectedLedger = 0
    /\ hpc = IdleHandler
    /\ zip = <<>>
    /\ csv = [pc |-> "idle", zip |-> <<>>]
    /\ outcome = NoOutcome
    /\ records = <<>>
    /\ ChartUnmounted
    /\ TextIdle
    /\ ModalIdle
    /\ PageIdle

Next ==
    \/ FetchSettles
    \/ BuffersSettle
    \/ \E s \in Slots : LoadFontDataResume(s)
    \/ \E s \in Slots : RegisterFont(s)
    \/ \E s \in Slots : BeginRender(s)
    \/ AutoTableDrawPage
    \/ RenderThrows
    \/ StampFooter
    \/ Output
    \/ \E c \in Comps : OpenPDFModal(c)
    \/ \E c \in Comps : ClosePDFModal(c)
    \/ \E k \in 1..MaxLedgers : handleExportSinglePDF(k)
    \/ handleExportAllPDFClick
    \/ \E c \in Comps : handleExportPDF(c)
    \/ \E c \in Comps : handleExportPDFSettled(c)
    \/ handlePDFExport
    \/ \E k \in 1..MaxLedgers : LedgerBlobResolved(k)
    \/ \E k \in 1..MaxLedgers : LedgerBufferDone(k)
    \/ \E k \in 1..MaxLedgers : LedgerRejected(k)
    \/ ZipSettles
    \/ LedgerSingleResolved
    \/ handleExportAllCSV
    \/ CsvZipSettles

Spec == Init /\ [][Next]_vars

\* The panel on its own: the export side stays as it starts.
ExportIdle ==
    /\ fontJPBase64 = Null
    /\ fontSCBase64 = Null
    /\ fontLoadPromise = NoPromise
    /\ loadPc = "idle"
    /\ fetchCount = 0
    /\ inv = [s \in Slots |-> IdleSlot]
    /\ running = NoSlot
    /\ doc = NoDoc
    /\ ledgers = <<>>
    /\ showPDFModal = [c \in Comps |-> FALSE]
    /\ pdfLoading = [c \in Comps |-> FALSE]
    /\ exportAllPDF = FALSE
    /\ selectedLedger = 0
    /\ hpc = IdleHandler
    /\ zip = <<>>
    /\ csv = [pc |-> "idle", zip |-> <<>>]
    /\ outcome = NoOutcome

ChartInit ==
    /\ ExportIdle
    /\ TextIdle
    /\ ModalIdle
    /\ PageIdle
    /\ records \in SeqsUpTo(RecordSet, MaxRecords) \cup ManyAccountReports
    /\ ChartUnmounted

ChartNext ==
    \/ MonthlyChartPanel
    \/ \E value \in accountOptions : setSelectedAccount(value)

ChartSpec == ChartInit /\ [][ChartNext]_vars

\* The exporters on their own: one report is held, and each handler runs
\* on it at most once.
SheetInit ==
    /\ ExportIdle
    /\ records = <<>>
    /\ ChartUnmounted
    /\ ModalIdle
    /\ PageIdle
    /\ saved = NotSaved
    /\ body = NoBody
    /\ \/ \E es \in SeqsUpTo(LedgerEntrySet, MaxEntries) :
             report = [kind |-> "ledger", data |-> LedgerOf(es)]
       \/ \E es \in SeqsUpTo(TrialBalanceEntrySet, MaxEntries) :
             report = [kind |-> "trial", data |-> TrialBalanceOf(es)]
       \/ \E rs \in SeqsUpTo(TransactionSet, MaxEntries) :
             report = [kind |-> "journal", data |-> [records |-> rs]]
       \/ \E ts \in SeqsUpTo(TransactionSet, MaxEntries),
             ids \in SUBSET {0, 1} :
             report = [kind |-> "transactions",
                       data |-> [transactions |-> ts, selectedIds |-> ids]]

SheetNext ==
    \/ handleExportSingleCSV
    \/ TrialBalanceResult_handleExportCSV
    \/ JournalResult_handleExportCSV
    \/ ExportButton_handleExportCSV
    \/ autoTableBody

SheetSpec == SheetInit /\ [][SheetNext]_vars

\* The export dialogs on their own: the export a dialog starts is followed
\* only to its outcome.
ModalInit ==
    /\ ExportIdle
    /\ records = <<>>
    /\ ChartUnmounted
    /\ TextIdle
    /\ PageIdle
    /\ ModalIdle

ModalNext ==
    \/ \E c \in Comps : PDFExportModal(c)
    \/ \E c \in Comps, value \in TypedNames : setCompanyName(c, value)
    \/ \E c \in Comps : handleExport(c)
    \/ \E c \in Comps : onExportSettled(c)
    \/ \E c \in Comps : ClosePDFModal(c)

ModalSpec == ModalInit /\ [][ModalNext]_vars

\* The reports page on its own, entered with or without the auto-generate
\* request of the home page.
ReportsInit ==
    /\ ExportIdle
    /\ records = <<>>
    /\ ChartUnmounted
    /\ TextIdle
    /\ ModalIdle
    /\ reportType \in REPORT_TYPES
    /\ dateRange = [from |-> TRUE, to |-> TRUE]
    /\ loading = FALSE
    /\ trialBalanceData = Null
    /\ ledgerData = Null
    /\ journalData = Null
    /\ monthlyChartData = Null
    /\ calls = NoCalls
    /\ \E shouldAutoGenerate \in BOOLEAN :
          timer = [pending |-> shouldAutoGenerate, reportType |-> reportType]

ReportsNext ==
    \/ handleGenerateReport
    \/ AutoGenerate
    \/ \E type \in REPORT_TYPES : GenerateReportSettles(type)
    \/ \E type \in REPORT_TYPES : setReportType(type)
    \/ \E from \in BOOLEAN, to \in BOOLEAN : setDateRange(from, to)
    \/ \E type \in REPORT_TYPES : onClose(type)

ReportsSpec == ReportsInit /\ [][ReportsNext]_vars

\* ------------------------------------------------------------------ claims
\* The loader's state as the design note names it; "failed" is the cached
\* operation left rejected.
LoaderState ==
    IF fontLoadPromise.state = "pending" THEN "loading"
    ELSE IF fontJPBase64 # Null /\ fontSCBase64 # Null THEN "loaded"
    ELSE IF fontLoadPromise.state = "none"
            /\ fontJPBase64 = Null /\ fontSCBase64 = Null THEN "unloaded"
    ELSE "failed"

AwaitingFont == {s \in Slots : inv[s].pc = "awaitFont"}

\* C1: while a load is in flight one fetch pair has been issued for it, and
\* every caller that waits for fonts waits for that one operation.
C1_Coalesced ==
    fontLoadPromise.state = "pending" =>
        /\ fetchCount = 1
        /\ fontLoadPromise.id = fetchCount
        /\ \A s \in AwaitingFont : inv[s].awaits = fontLoadPromise.id

C1_Witness ==
    /\ fontLoadPromise.state = "pending"
    /\ Cardinality(AwaitingFont) >= 3
    /\ fetchCount = 1

\* C2: the JP cache is populated if and only if the SC cache is.
C2_NoPartialCache == (fontJPBase64 # Null) <=> (fontSCBase64 # Null)

C2_Witness ==
    /\ fontLoadPromise.state = "rejected"
    /\ fontJPBase64 = Null
    /\ fontSCBase64 = Null

\* C3: the loader is always unloaded, loading or loaded; a failed load
\* leaves it unloaded.
C3_FailureLeavesUnloaded == LoaderState \in {"unloaded", "loading", "loaded"}

\* C4: once both fonts are cached no step changes either cache and no step
\* issues a fetch.
C4_WriteOnce ==
    [][(fontJPBase64 # Null /\ fontSCBase64 # Null) =>
          /\ fontJPBase64' = fontJPBase64
          /\ fontSCBase64' = fontSCBase64
          /\ fetchCount' = fetchCount]_vars

C4_Witness ==
    /\ fontJPBase64 = toBase64(FontFileJP)
    /\ fontSCBase64 = toBase64(FontFileSC)
    /\ fetchCount = 1
    /\ \E s \in Slots : inv[s].pc = "fontReady" /\ inv[s].awaits = 0

PageNumbers == 1..Len(doc.pages)

\* C5: a page carries a footer only after the table is complete and its page
\* count final, and at the end of the footer pass every page carries one.
C5_TwoPass ==
    /\ \A p \in PageNumbers :
          doc.pages[p].footers # <<>> =>
              /\ doc.stage = "footer"
              /\ doc.rowsLeft = 0
              /\ doc.totalPages = Len(doc.pages)
    /\ Finished(doc) => \A p \in PageNumbers : doc.pages[p].footers # <<>>

C5_Witness == Finished(doc) /\ Len(doc.pages) >= 3

\* C6: every footer stamped on page i reads "Page i / P" with P the number
\* of pages, no page is stamped twice, and at the end of the footer pass
\* every page of the P >= 1 pages is stamped.
C6_FooterCounts ==
    /\ \A p \in PageNumbers :
          /\ Len(doc.pages[p].footers) <= 1
          /\ \A j \in 1..Len(doc.pages[p].footers) :
                doc.pages[p].footers[j] = <<p, Len(doc.pages)>>
    /\ Finished(doc) =>
          /\ Len(doc.pages) >= 1
          /\ \A p \in PageNumbers :
                doc.pages[p].footers = << <<p, Len(doc.pages)>> >>

C6_Witness ==
    /\ Finished(doc)
    /\ Len(doc.pages) = 3
    /\ doc.pages[3].footers = << <<3, 3>> >>

\* C7: page 1 has the first-page header once and never the compact one;
\* every later page has the compact header once, from the end of its own
\* drawing on, and never the first-page header; the flag is set exactly
\* until the first didDrawPage.
C7_TwoTierHeader ==
    /\ doc.stage # "none" =>
          /\ doc.pages[1].first = 1
          /\ doc.pages[1].compact = 0
          /\ doc.isFirstPage <=> (doc.stage = "table" /\ Len(doc.pages) = 1)
    /\ \A p \in PageNumbers \ {1} :
          /\ doc.pages[p].first = 0
          /\ doc.pages[p].compact =
                IF p < Len(doc.pages) \/ doc.stage = "footer" THEN 1 ELSE 0

C7_Witness ==
    /\ doc.stage = "footer"
    /\ Len(doc.pages) >= 3
    /\ doc.pages[3].compact = 1
    /\ doc.pages[1].first = 1

InFlight(k) == inv[<<"ledger", k>>].pc # "idle"

\* C8: during a bulk export at most one ledger document is being generated,
\* and while ledger k is, every ledger before it has its file name in the
\* archive and the bytes of ledger k - 1 are there.
C8_Sequential ==
    hpc.stage = "bulk" =>
        /\ Cardinality({k \in 1..MaxLedgers : InFlight(k)}) <= 1
        /\ \A k \in 1..MaxLedgers :
              InFlight(k) =>
                  /\ \A j \in 1..(k - 1) :
                        \E i \in 1..Len(zip) :
                            zip[i].name = LedgerFilename(ledgers[j], "pdf")
                  /\ k > 1 => \E i \in 1..Len(zip) : zip[i].data = k - 1

C8_Witness ==
    /\ hpc.stage = "bulk"
    /\ running = <<"ledger", 2>>
    /\ \E i \in 1..Len(zip) : zip[i].data = 1

\* The last step saved an archive from handler h.
SavedArchive(h) ==
    /\ outcome.handler = h
    /\ Len(outcome.saved) = 1
    /\ outcome.saved[1].name = ReportFilename("ledger", "zip")

Ext(h) == IF h = "csv" THEN "csv" ELSE "pdf"

\* The archive holds one entry per ledger, under the ledger's file name, in
\* the order of data.ledgers.
OneEntryPerLedger(h) ==
    LET entries == outcome.saved[1].content
    IN  /\ Len(entries) = Len(ledgers)
        /\ \A k \in 1..Len(ledgers) :
              /\ entries[k].name = LedgerFilename(ledgers[k], Ext(h))
              /\ entries[k].data = k

DistinctAccounts ==
    \A i, j \in 1..Len(ledgers) : i # j => ledgers[i] # ledgers[j]

\* C9 as stated: every saved archive has one entry per supplied ledger.
C9_EveryListOneEntryEach ==
    \A h \in {"ledger", "csv"} : SavedArchive(h) => OneEntryPerLedger(h)

\* C9, amended: when the account names are pairwise distinct, every saved
\* archive has one entry per supplied ledger, under the supplied file name,
\* in the order supplied.
C9_DistinctNamesOneEntryEach ==
    \A h \in {"ledger", "csv"} :
        (SavedArchive(h) /\ DistinctAccounts) => OneEntryPerLedger(h)

C9_Witness ==
    /\ SavedArchive("ledger")
    /\ DistinctAccounts
    /\ Len(ledgers) = 2
    /\ Len(outcome.saved[1].content) = 2

\* C10: a handler call in which an await threw handed nothing to saveAs; a
\* call hands over at most one file, and an archive only when it names the
\* document of every ledger.
C10_NoPartialFile ==
    /\ outcome.threw => outcome.saved = <<>>
    /\ Len(outcome.saved) <= 1
    /\ \A h \in {"ledger", "csv"} :
          SavedArchive(h) =>
              \A k \in 1..Len(ledgers) :
                  \E i \in 1..Len(outcome.saved[1].content) :
                      outcome.saved[1].content[i].name =
                          LedgerFilename(ledgers[k], Ext(h))

C10_Witness ==
    /\ outcome.handler = "ledger"
    /\ outcome.threw
    /\ exportAllPDF
    /\ Len(zip) >= 1
    /\ outcome.saved = <<>>

\* ------------------------------------------- claims on the monthly chart
RecordIdx == 1..Len(records)

\* A date that starts with a calendar month written YYYY-MM.
WellFormedDate(d) ==
    /\ Len(d) >= 7
    /\ \A i \in {1, 2, 3, 4, 6, 7} : IsDigit(d[i])
    /\ d[5] = "-"
    /\ DecimalValue(SubSeq(d, 6, 7)) \in 1..12

\* The calendar month of such a date, counted from year 0.
CalendarMonth(d) ==
    12 * DecimalValue(SubSeq(d, 1, 4)) + DecimalValue(SubSeq(d, 6, 7)) - 1

Dated == {i \in RecordIdx : WellFormedDate(records[i].transaction_date)}
InMonth(i, m) ==
    i \in Dated /\ CalendarMonth(records[i].transaction_date) = m

RECURSIVE SeqSum(_)
SeqSum(s) == IF s = <<>> THEN 0 ELSE Head(s) + SeqSum(Tail(s))

\* What a record posts, read off its fields: the amount of its side when the
\* account is named and the amount positive, and its positive tax.
ItemOf(r) ==
    IF r.transaction_type = 1 THEN r.credit_item
    ELSE IF r.transaction_type = 2 THEN r.debit_item
    ELSE ""
AmountOf(r) ==
    IF r.transaction_type = 1 THEN OrZero(parseFloat(r.credit_amount))
    ELSE IF r.transaction_type = 2 THEN OrZero(parseFloat(r.debit_amount))
    ELSE 0
TaxOf(r) ==
    IF r.transaction_type = 1 THEN OrZero(parseFloat(r.credit_ct))
    ELSE IF r.transaction_type = 2 THEN OrZero(parseFloat(r.debit_ct))
    ELSE 0
PostedAmount(r) == IF ItemOf(r) # "" /\ AmountOf(r) > 0 THEN AmountOf(r) ELSE 0
PostedTax(r) == IF TaxOf(r) > 0 THEN TaxOf(r) ELSE 0

\* C11: for every non-empty record set the buckets are exactly the calendar
\* months from the earliest to the latest record month, each once, in
\* ascending order, gaps and year boundaries included.
C11_GapFreeRange ==
    (mounted /\ Dated # {}) =>
        LET months == {CalendarMonth(records[i].transaction_date) : i \in Dated}
            lo == CHOOSE m \in months : \A x \in months : m <= x
            hi == CHOOSE m \in months : \A x \in months : x <= m
        IN  /\ Len(monthlyData) = hi - lo + 1
            /\ \A k \in 1..Len(monthlyData) :
                  /\ WellFormedDate(monthlyData[k].month)
                  /\ CalendarMonth(monthlyData[k].month) = lo + k - 1

\* The sum of the positive entries of a bucket, and of its negative entries
\* taken absolutely.
PositiveSum(b) ==
    SeqSum([i \in 1..Len(accounts) |->
        IF b.entries[accounts[i].name] > 0
        THEN b.entries[accounts[i].name] ELSE 0])
NegativeSum(b) ==
    SeqSum([i \in 1..Len(accounts) |->
        IF b.entries[accounts[i].name] < 0
        THEN 0 - b.entries[accounts[i].name] ELSE 0])
PostingsOfMonth(m, type) ==
    SeqSum([i \in RecordIdx |->
        IF InMonth(i, m) /\ records[i].transaction_type = type
        THEN PostedAmount(records[i]) + PostedTax(records[i]) ELSE 0])

\* C12: in every bucket the positive entries sum to the income postings of
\* the month and the negative entries, taken absolutely, to its expense
\* postings; income entries are never negative, expense entries never
\* positive.
C12_SignedTotals ==
    mounted =>
        \A k \in 1..Len(monthlyData) :
            LET b == monthlyData[k]
                m == CalendarMonth(b.month)
            IN  /\ PositiveSum(b) = PostingsOfMonth(m, 1)
                /\ NegativeSum(b) = PostingsOfMonth(m, 2)
                /\ \A i \in 1..Len(accounts) :
                      IF accounts[i].type = "income"
                      THEN b.entries[accounts[i].name] >= 0
                      ELSE b.entries[accounts[i].name] <= 0

\* The synthetic tax account of a direction, and the month key of a record.
TaxAccount(type) == IF type = 1 THEN TaxNameIncome ELSE TaxNameExpense
MonthKeyOf(r) ==
    SubSeq(r.transaction_date, 1, Min(7, Len(r.transaction_date)))

\* The records that post under a name from the given direction.
PostsUnder(name, type) ==
    {i \in RecordIdx :
        /\ records[i].transaction_date # <<>>
        /\ records[i].transaction_type = type
        /\ \/ ItemOf(records[i]) = name /\ PostedAmount(records[i]) > 0
           \/ TaxAccount(type) = name /\ PostedTax(records[i]) > 0}

\* C13: during one fold an account keeps the classification it got first,
\* and no account name holds amounts of both inbound and outbound records.
C13_StableClassification ==
    mounted =>
        /\ \A k \in RecordIdx :
              LET before == Fold(records, k - 1).accountSet
                  after == Fold(records, k).accountSet
              IN  \A a \in 1..Len(before) : after[a] = before[a]
        /\ \A i \in 1..Len(accounts) :
              PostsUnder(accounts[i].name, 1) = {}
              \/ PostsUnder(accounts[i].name, 2) = {}

\* C14: when no record of the input posts anything, the result has no
\* bucket and no account.
C14_NothingPostedNothingReturned ==
    (mounted /\ \A i \in RecordIdx :
                    PostedAmount(records[i]) = 0 /\ PostedTax(records[i]) = 0)
        => (monthlyData = <<>> /\ accounts = <<>>)

Malformed(d) == d # <<>> /\ ~WellFormedDate(d)
Without(rs, i) ==
    [k \in 1..(Len(rs) - 1) |-> IF k < i THEN rs[k] ELSE rs[k + 1]]

\* C15: a record with a malformed date changes nothing: the buckets and the
\* accounts are those of the same records without it.
C15_BadDateIsDropped ==
    mounted =>
        \A i \in RecordIdx :
            Malformed(records[i].transaction_date) =>
                LET rest == MonthlyMemo(Without(records, i))
                IN  monthlyData = rest.monthlyData /\ accounts = rest.accounts

\* A record of a known direction that lacks its account name or a positive
\* amount on its side.
Unpostable(r) ==
    r.transaction_type \in {1, 2} /\ (ItemOf(r) = "" \/ AmountOf(r) <= 0)

\* Every amount held after a fold step was held, unchanged, before it.
AmountsUnchangedExcept(before, after, name) ==
    \A m \in DOMAIN after.monthMap :
        \A n \in DOMAIN after.monthMap[m] \ {name} :
            /\ m \in DOMAIN before.monthMap
            /\ n \in DOMAIN before.monthMap[m]
            /\ after.monthMap[m][n] = before.monthMap[m][n]

RECURSIVE PostedNames(_)
PostedNames(k) ==
    IF k = 0 THEN <<>>
    ELSE LET r == records[k]
         IN  PostedNames(k - 1)
             \o (IF r.transaction_date # <<>> /\ PostedAmount(r) > 0
                 THEN <<ItemOf(r)>> ELSE <<>>)
             \o (IF r.transaction_date # <<>> /\ PostedTax(r) > 0
                 THEN <<TaxAccount(r.transaction_type)>> ELSE <<>>)
RECURSIVE FirstSeen(_, _)
FirstSeen(s, seen) ==
    IF s = <<>> THEN <<>>
    ELSE IF Head(s) \in seen THEN FirstSeen(Tail(s), seen)
    ELSE <<Head(s)>> \o FirstSeen(Tail(s), seen \cup {Head(s)})

\* C17: the account list is in the order of each account's first posting in
\* the input, and the k-th income (expense) account, from 0, has colour
\* k mod 10 of the income (expense) palette.
C17_FirstSeenOrderAndColors ==
    mounted =>
        /\ [i \in 1..Len(accounts) |-> accounts[i].name]
              = FirstSeen(PostedNames(Len(records)), {})
        /\ \A i \in 1..Len(accounts) :
              LET k == Cardinality({j \in 1..(i - 1) :
                           accounts[j].type = accounts[i].type})
              IN  accounts[i].color =
                     IF accounts[i].type = "income"
                     THEN INCOME_COLORS[(k % 10) + 1]
                     ELSE EXPENSE_COLORS[(k % 10) + 1]

C17_Witness ==
    /\ mounted
    /\ Len(accounts) = 11
    /\ \A i \in 1..11 : accounts[i].type = "income"
    /\ accounts[10].color = INCOME_COLORS[10]
    /\ accounts[11].color = INCOME_COLORS[1]

\* What the records of a month key post as tax of a direction, and under a
\* business account.
TaxOfMonth(key, type, Tax(_)) ==
    SeqSum([i \in RecordIdx |->
        IF /\ records[i].transaction_date # <<>>
           /\ MonthKeyOf(records[i]) = key
           /\ records[i].transaction_type = type
        THEN Tax(records[i]) ELSE 0])
AmountOfMonth(key, name) ==
    SeqSum([i \in RecordIdx |->
        IF /\ records[i].transaction_date # <<>>
           /\ MonthKeyOf(records[i]) = key
           /\ ItemOf(records[i]) = name
        THEN PostedAmount(records[i]) ELSE 0])
BusinessNames ==
    {ItemOf(records[i]) : i \in RecordIdx} \ {""}

AccountNames == {accounts[i].name : i \in 1..Len(accounts)}

\* C19: every bucket has an entry for every account of the list, the entry
\* is 0 where the account has no posting in the month, and all buckets have
\* the same account keys.
C19_ZeroFilled ==
    mounted =>
        \A k \in 1..Len(monthlyData) :
            LET b == monthlyData[k]
            IN  /\ DOMAIN b.entries = AccountNames
                /\ \A n \in AccountNames :
                      (\A i \in PostsUnder(n, 1) \cup PostsUnder(n, 2) :
                            MonthKeyOf(records[i]) # b.month)
                      => b.entries[n] = 0

C19_Witness ==
    /\ mounted
    /\ Len(monthlyData) = 3
    /\ Len(accounts) >= 2
    /\ \A n \in AccountNames :
          /\ monthlyData[2].entries[n] = 0
          /\ \/ monthlyData[1].entries[n] # 0
             \/ monthlyData[3].entries[n] # 0

\* The class total of a bucket: the absolute entries of the accounts that
\* have the given classification.
ClassTotal(b, type) ==
    SeqSum([i \in 1..Len(accounts) |->
        IF accounts[i].type = type THEN Abs(b.entries[accounts[i].name])
        ELSE 0])
SelectedType ==
    accounts[CHOOSE i \in 1..Len(accounts) :
                accounts[i].name = selectedAccount].type

\* C20: for the selected account the projection has one row per bucket; its
\* value is the absolute entry, its percentage is 100 * value / classTotal
\* to the nearest tenth when classTotal > 0 and 0 when classTotal = 0, and
\* lies in [0, 100]. Percentages are in tenths of a percent.
C20_TrendProjection ==
    (mounted /\ selectedAccount # "all") =>
        /\ Len(lineChartData) = Len(monthlyData)
        /\ \A k \in 1..Len(monthlyData) :
              LET b == monthlyData[k]
                  row == lineChartData[k]
                  value == Abs(b.entries[selectedAccount])
                  classTotal == ClassTotal(b, SelectedType)
              IN  /\ row.month = b.month
                  /\ row.value = value
                  /\ classTotal > 0 =>
                        2 * Abs(row.percentage * classTotal - 1000 * value)
                            <= classTotal
                  /\ classTotal = 0 => row.percentage = 0
                  /\ row.percentage \in 0..1000

C20_Witness ==
    /\ mounted
    /\ selectedAccount = "Sales"
    /\ Len(lineChartData) = 3
    /\ lineChartData[1].value = 1000
    /\ lineChartData[1].percentage = 926
    /\ lineChartData[2].percentage = 0
    /\ lineChartData[3].percentage = 1000

\* ------------------------------------- claims on the exported text and tables
\* Reading comma-separated text back: a comma or a newline separates only
\* outside double quotes, that is after an even number of quote characters.
Separators(s, ch) ==
    {i \in 1..Len(s) :
        /\ s[i] = ch
        /\ Cardinality({j \in 1..(i - 1) : s[j] = "\""}) % 2 = 0}

\* The pieces of s between the positions of P, in order.
Pieces(s, P) ==
    LET nth(k) == CHOOSE p \in P : Cardinality({q \in P : q < p}) = k - 1
        from(k) == IF k = 1 THEN 1 ELSE nth(k - 1) + 1
        to(k) == IF k = Cardinality(P) + 1 THEN Len(s) ELSE nth(k) - 1
    IN  [k \in 1..(Cardinality(P) + 1) |-> SubSeq(s, from(k), to(k))]

\* The text between the quotes of a quoted field, a doubled quote read as one.
RECURSIVE Unescape(_)
Unescape(s) ==
    IF s = <<>> THEN <<>>
    ELSE IF Len(s) >= 2 /\ s[1] = "\"" /\ s[2] = "\""
    THEN <<"\"">> \o Unescape(SubSeq(s, 3, Len(s)))
    ELSE <<Head(s)>> \o Unescape(Tail(s))

\* A field as it is read: its text, and whether it stood in quotes.
ReadField(f) ==
    IF Len(f) >= 2 /\ f[1] = "\"" /\ f[Len(f)] = "\""
    THEN [text |-> Unescape(SubSeq(f, 2, Len(f) - 1)), quoted |-> TRUE]
    ELSE [text |-> f, quoted |-> FALSE]

\* The rows of fields of a text.
ReadCsv(s) ==
    LET lines == Pieces(s, Separators(s, "\n"))
    IN  [r \in 1..Len(lines) |->
            LET fields == Pieces(lines[r], Separators(lines[r], ","))
            IN  [c \in 1..Len(fields) |-> ReadField(fields[c])]]

\* The rows of the file that was saved, without its byte-order mark.
ExportedRows ==
    IF saved.files = <<>> THEN <<>>
    ELSE ReadCsv(Tail(saved.files[1].content))

\* The data rows of the report that is exported.
InputRows ==
    CASE report.kind = "ledger" -> report.data.entries
      [] report.kind = "trial" -> report.data.entries
      [] report.kind = "journal" -> report.data.records
      [] report.kind = "transactions" ->
             getDataToExport(report.data.transactions,
                             report.data.selectedIds)
      [] OTHER -> <<>>

\* The free-text cells of a data row: column, content, and whether the cell
\* is the description.
TextCells(row) ==
    LET cell(col, content, description) ==
            [col |-> col, content |-> content, description |-> description]
    IN  CASE report.kind = "ledger" ->
                 {cell(2, row.aiteKanjouKamoku, FALSE),
                  cell(3, row.tekiyou, TRUE)}
          [] report.kind = "trial" -> {cell(3, row.kanjouKamoku, FALSE)}
          [] report.kind = "journal" ->
                 {cell(2, row.description, TRUE),
                  cell(3, row.debit_item, FALSE),
                  cell(6, row.credit_item, FALSE)}
          [] report.kind = "transactions" ->
                 {cell(4, row.description, TRUE),
                  cell(5, row.debit_item, FALSE),
                  cell(8, row.credit_item, FALSE)}

NeedsQuotes(text) ==
    \E i \in 1..Len(text) : text[i] \in {",", "\"", "\n"}

\* C21: in the saved file of every report kind, every cell whose content
\* holds a comma, a double quote or a newline, and every description cell,
\* stands in double quotes with its quotes doubled: read back, the cell is
\* a quoted field with the content it was given.
C21_CellsQuoted ==
    saved.files # <<>> =>
        \A i \in 1..Len(InputRows) :
            \A cell \in TextCells(InputRows[i]) :
                (cell.description \/ NeedsQuotes(cell.content)) =>
                    /\ i + 1 <= Len(ExportedRows)
                    /\ cell.col <= Len(ExportedRows[i + 1])
                    /\ ExportedRows[i + 1][cell.col] =
                          [text |-> cell.content, quoted |-> TRUE]

\* C22: the saved file of every report kind, read back, has the header
\* row, one row per data row and one totals row, and every row has as many
\* columns as the header.
C22_RoundTrip ==
    saved.files # <<>> =>
        /\ Len(ExportedRows) = Len(InputRows) + 2
        /\ \A r \in 1..Len(ExportedRows) :
              Len(ExportedRows[r]) = Len(ExportedRows[1])

\* C23: an export of zero records saves a file, and the file has the header
\* row and the totals row only, every total being 0.
C23_ZeroRecords ==
    (saved.done /\ InputRows = <<>>) =>
        /\ saved.files # <<>>
        /\ Len(ExportedRows) = 2
        /\ \A j \in 1..Len(ExportedRows[2]) :
              ExportedRows[2][j].text \in {<<>>, <<"0">>, Label("Goukei")}

\* The amount cells of a data row of a document table: column and amount.
AmountCells(row) ==
    LET cell(col, amount) == [col |-> col, amount |-> amount]
    IN  CASE report.kind = "ledger" ->
                 {cell(4, row.karikataKingaku), cell(5, row.kashikataKingaku),
                  cell(6, Amount(row.zandaka))}
          [] report.kind = "trial" ->
                 {cell(1, Amount(row.karikataZandaka)),
                  cell(2, Amount(row.karikataGoukei)),
                  cell(4, Amount(row.kashikataGoukei)),
                  cell(5, Amount(row.kashikataZandaka))}
          [] report.kind = "transactions" ->
                 {cell(6, row.debit_amount), cell(7, row.debit_ct),
                  cell(9, row.credit_amount), cell(10, row.credit_ct)}

\* The amounts of the totals row: column and amount.
TotalCells ==
    LET cell(col, amount) == [col |-> col, amount |-> amount]
        summary == report.data.summary
    IN  CASE report.kind = "ledger" ->
                 {cell(4, summary.karikataGoukei),
                  cell(5, summary.kashikataGoukei), cell(6, summary.zandaka)}
          [] report.kind = "trial" ->
                 {cell(1, summary.karikataZandaka),
                  cell(2, summary.karikataGoukei),
                  cell(4, summary.kashikataGoukei),
                  cell(5, summary.kashikataZandaka)}
          [] report.kind = "transactions" -> {}

\* C24: in the table of a document a data row shows an amount that is 0,
\* null or absent as an empty cell and any other amount as grouped digits;
\* the totals row shows 0 as "0".
C24_AmountCells ==
    body.done =>
        /\ \A i \in 1..Len(InputRows) :
              \A cell \in AmountCells(InputRows[i]) :
                  body.rows[i][cell.col] =
                      IF cell.amount.null \/ cell.amount.v = 0 THEN <<>>
                      ELSE toLocaleString(cell.amount.v)
        /\ \A cell \in TotalCells :
              body.rows[Len(body.rows)][cell.col] =
                  IF cell.amount = 0 THEN <<"0">>
                  ELSE toLocaleString(cell.amount)

\* ------------------------------------------- claims on the export dialog
\* C25: the stored organization label changes only in the step in which an
\* export that was confirmed completes successfully; confirming an export
\* that is still running, or that fails, leaves it as it was.
C25_WrittenOnSuccessOnly ==
    [][localStorage' # localStorage => outcome'.toast = <<"success">>]_vars

\* C26: when an export attempt has come to its end, exactly one notification
\* was shown, pdfLoading of its component is false, a success notification
\* comes with a saved file and a closed dialog, and after a failure
\* notification the dialog is still open.
C26_OneOutcome ==
    outcome.handler \in Comps =>
        /\ Len(outcome.toast) = 1
        /\ ~pdfLoading[outcome.handler]
        /\ outcome.toast = <<"success">> =>
              outcome.saved # <<>> /\ ~showPDFModal[outcome.handler]
        /\ outcome.toast = <<"error">> => showPDFModal[outcome.handler]

\* ------------------------------------------- claims on fonts and documents
\* C27: a document exists only while its call is drawing it, a call draws or
\* has returned its blob only with both fonts in hand from a font load that
\* was fulfilled, and while no font load was fulfilled no call has
\* registered fonts, drawn anything or returned a blob.
C27_FontsBeforeDrawing ==
    /\ doc # NoDoc => running # NoSlot
    /\ running # NoSlot => inv[running].pc = "rendering"
    /\ \A s \in Slots :
          inv[s].pc \in {"registered", "rendering", "resolved"} =>
              /\ inv[s].jp # Null
              /\ inv[s].sc # Null
              /\ fontLoadPromise.state = "fulfilled"
    /\ fontLoadPromise.state # "fulfilled" =>
          /\ doc = NoDoc
          /\ \A s \in Slots :
                inv[s].pc \in {"idle", "awaitFont", "rejected"}

\* A call that had to await the font load has drawn its table and stamps
\* the footers.
C27_Witness ==
    /\ running # NoSlot
    /\ inv[running].awaits # 0
    /\ doc.stage = "footer"
    /\ Len(doc.pages) >= 2

\* C28: a loadFontData call that has resolved holds the two cached strings,
\* neither of them null, and a call that ended without them was rejected
\* by a font load that was rejected.
C28_ResolvesWithBothFonts ==
    \A s \in Slots :
        /\ inv[s].pc \in {"fontReady", "registered", "rendering", "resolved"} =>
              /\ inv[s].jp = fontJPBase64
              /\ inv[s].sc = fontSCBase64
              /\ inv[s].jp # Null
              /\ inv[s].sc # Null
        /\ (inv[s].pc # "awaitFont" /\ inv[s].awaits # 0 /\ inv[s].jp = Null) =>
              /\ inv[s].pc = "rejected"
              /\ fontLoadPromise.state = "rejected"

\* After a load that callers awaited was fulfilled, a later call has
\* returned on the cached path with what the callers of the load received.
C28_Witness ==
    /\ fontLoadPromise.state = "fulfilled"
    /\ \E u \in Slots :
          /\ inv[u].pc = "fontReady"
          /\ inv[u].awaits = 0
          /\ inv[u].jp = toBase64(FontFileJP)
          /\ inv[u].sc = toBase64(FontFileSC)

\* --------------------------------------------- claims on the tax postings
\* What the tax account of a direction holds in a month of a fold state.
TaxHeld(st, key, type) ==
    IF key \in DOMAIN st.monthMap
    THEN GetOrZero(st.monthMap[key], TaxAccount(type)) ELSE 0
Listed(st, name) == \E a \in 1..Len(st.accountSet) : st.accountSet[a].name = name

\* C29: the fold step of a dated inbound or outbound record with a positive
\* tax amount adds that amount to the tax account of its direction in the
\* record's month and lists that account, whether or not the record's own
\* posting was skipped; the step of a record whose tax amount is zero,
\* negative or absent leaves the tax account as it was.
C29_TaxPostedIndependently ==
    mounted =>
        \A k \in RecordIdx :
            LET r == records[k]
                before == Fold(records, k - 1)
                after == Fold(records, k)
                key == MonthKeyOf(r)
                type == r.transaction_type
                own == IF ItemOf(r) = TaxAccount(type) THEN PostedAmount(r)
                       ELSE 0
            IN  (r.transaction_date # <<>> /\ type \in {1, 2}) =>
                    /\ TaxHeld(after, key, type)
                          = TaxHeld(before, key, type) + own
                            + (IF TaxOf(r) > 0 THEN TaxOf(r) ELSE 0)
                    /\ TaxOf(r) > 0 => Listed(after, TaxAccount(type))
                    /\ (TaxOf(r) <= 0 /\ own = 0) =>
                          (Listed(after, TaxAccount(type))
                              <=> Listed(before, TaxAccount(type)))

\* A record whose own posting is skipped posts its tax, and a record with a
\* negative tax amount follows it in the same report.
C29_Witness ==
    /\ mounted
    /\ \E k, j \in RecordIdx :
          /\ k < j
          /\ Unpostable(records[k])
          /\ TaxOf(records[k]) > 0
          /\ TaxOf(records[j]) < 0
          /\ records[j].transaction_type = records[k].transaction_type
          /\ TaxHeld(Fold(records, j), MonthKeyOf(records[k]),
                     records[k].transaction_type) = TaxOf(records[k])

\* ------------------------------------------- claims on the reports page
\* The result states that hold a report.
ResultsHeld ==
    {type \in REPORT_TYPES :
        \/ type = "trial_balance" /\ trialBalanceData # Null
        \/ type = "ledger" /\ ledgerData # Null
        \/ type = "journal" /\ journalData # Null
        \/ type = "monthly_chart" /\ monthlyChartData # Null}

\* C30: when no handleGenerateReport call is awaiting its answer, at most
\* one of the four result states holds a report and loading is false.
C30_SingleResult ==
    calls = NoCalls => (Cardinality(ResultsHeld) <= 1 /\ ~loading)

====
